---- MODULE Spec2Model ----
(***************************************************************************)
(* A model of moviepy_layouters: the constraint-based layout and           *)
(* compositing engine.  Each part of the engine is modelled by its own     *)
(* group of variables and its own specification; the variables of the      *)
(* other groups stay at their idle values meanwhile.                       *)
(*                                                                         *)
(*   SpecMemo      LayouterClip.get_frame and its one-slot memo            *)
(*   SpecMerge     LayouterClip.merge_constraints                          *)
(*   SpecListView  ListView.calculate_size                                 *)
(*   SpecGrid      Grid.__init__ / _validate_grid_shape / calculate_size   *)
(*   SpecStack     Stack.calculate_size                                    *)
(*   SpecSequential Sequential.calculate_size / frame_function             *)
(*   SpecOffseted  Offseted.frame_function                                 *)
(*   SpecPaste     paste_image_array                                       *)
(*   SpecCurve     Linear, Interval and Cubic curves                       *)
(*   SpecInf       the comparisons of Infinity                             *)
(*   SpecTree      calculate_size and setup_layout over a tree of nodes    *)
(*   SpecGridFrame Grid.frame_function                                     *)
(*   SpecStackFrame Stack.frame_function                                   *)
(*   SpecSeqNew    Sequential.__init__ and get_frame on the Sequential     *)
(*   SpecInterval  Interval.transform, end = begin included                *)
(*   SpecAnim      AnimatedClip and AnimatedSlide                          *)
(*   SpecPadding   Padding.calculate_size                                  *)
(*   SpecOwn       parent pointers and the children nodes hold             *)
(*                                                                         *)
(* Python's Optional[X] is a sequence of length at most one: <<>> is None. *)
(* Times are integers (the code's floats, scaled).                         *)
(***************************************************************************)
EXTENDS Integers, Sequences, FiniteSets, TLC

VARIABLES
    \* ---- parent and children (base.py, container.py): the nodes constructed
    ow_kind,           \* per node: "none" (not constructed), "single", "multi", "grid"
    ow_parent,         \* per node: self.parent, 0 for None
    ow_held,           \* per node: <<self._child>>, self.children or the Grid's row; 0 for None
    \* ---- Padding.calculate_size (visuals.py): one Padding over a Box
    pd_padding,        \* self.padding as <<top, left, bottom, right>>
    pd_child,          \* self.child: a Box [w, h, use_max]
    pd_call,           \* <<>> or <<[size, constraints, child_constraints, child_size]>>
    \* ---- AnimatedClip, AnimatedSlide (anime.py): one animated clip
    an_status,         \* "none" (nothing constructed yet), "ok", "error" (the constructor raised)
    an_args,           \* <<>> or <<[kind, duration, curve, start, end]>>
    an_offset,         \* <<>> or <<slider.offset>>
    an_call,           \* the last frame_function: <<>> or <<[t, at]>>
    \* ---- Interval.transform (curves.py): one Interval and one call of transform
    iv_curve,          \* the Interval: <<"Interval", begin, end, curve>>
    iv_call,           \* <<>> or <<[t, raised, ret]>>
    \* ---- Sequential.__init__ (container.py): one construction and get_frame on it
    sn_args,           \* <<>> or <<[children, duration]>>: what the constructor was given
    sn_status,         \* "none" (nothing constructed yet), "ok", "error" (raised)
    sn_children,       \* self.children
    sn_duration,       \* self.duration
    sn_size,           \* self.size: <<>> (unset) or <<W, H>>
    sn_memoized_t,     \* self.memoized_t
    sn_memoized_frame, \* self.memoized_frame
    sn_call,           \* the last get_frame: <<>> or <<[t, ret]>>
    \* ---- Stack.frame_function (container.py): one stack of coloured boxes, rendered
    sf_children,       \* self.children: a list of PaintChild
    sf_alignment,      \* self.alignment, the value of the Alignment enum
    sf_size,           \* self.size: <<>> (unset) or <<W, H>>
    sf_child_sizes,    \* child.size of each child
    sf_child_offsets,  \* self._child_offsets
    sf_call,           \* the last frame_function: <<>> or <<[raised, canvas]>>
    \* ---- Grid.frame_function (container.py): one grid of leaf boxes, rendered
    gfr_node,          \* the Grid node (see Node)
    gfr_call,          \* the last frame_function: <<>> or <<[raised, cells]>>
    \* ---- a tree of layout nodes and the sizing passes over it
    rt_tree,           \* the root node (see Node)
    rt_call,           \* the last pass: <<>> or <<[constraints, raised, op]>>
    rt_runs,           \* how many times in a row that pass was made, up to MaxRuns
    \* ---- Infinity (infinity.py): the last comparison made with INF around
    inf_call,          \* <<>> or <<[op, a, b, ret]>>: ret is the value of a op b
    \* ---- Curve (clips/curves.py): one curve and the last call of it
    cv_curve,          \* the curve: Linear, Cubic or Interval
    cv_call,           \* the last c(t): <<>> or <<[t, ret]>>, ret <<>> if no return
    \* ---- paste_image_array (utils.py): a canvas and the last paste onto it
    pa_canvas,         \* canvas: rows of pixels <<rgb, alpha>>
    pa_call,           \* the last call: <<>> or <<[before, frame, pos, raised]>>
    \* ---- Offseted (clips/visuals.py): one offset node over a leaf child
    off_size,          \* self.size == self.child.size: <<W, H>>
    off_offset,        \* self.offset: <<dx, dy>> in units of 1 / OffsetDen
    off_child_memo,    \* the child's memo: <<>> or <<[t, frame]>>
    off_call,          \* the last frame_function call: <<>> or <<record>>
    \* ---- Sequential (clips/container.py): one sequence and its last render
    seq_children,      \* self.children: leaves with a duration, a size, a memo
    seq_alignment,     \* self.alignment: the Alignment's value, 0 .. 8
    seq_size,          \* self.size: <<>> before the sizing pass, else <<W, H>>
    seq_call,          \* the last frame_function call: <<>> or <<record>>
    \* ---- LayouterClip (clips/base.py): one node and its last get_frame call
    duration,          \* self.duration: <<>> (None) or <<d>>
    size,              \* self.size: <<W, H>> after the sizing pass
    memoized_t,        \* self.memoized_t: <<>> or <<t>>
    memoized_frame,    \* self.memoized_frame: <<>> or <<frame>>
    gf_call,           \* the last get_frame call: <<>> or <<[t, ret, computed]>>
    \* ---- merge_constraints (clips/base.py): the arguments and the result
    one, two,          \* the two Constraints
    merged,            \* <<>> or <<merge_constraints(one, two)>>
    \* ---- ListView (clips/container.py): one list and its last calculate_size
    lv_children,       \* self.children: Flex children and fixed Box leaves
    lv_axis,           \* self.axis: Vertical (1) or Horizontal (0)
    lv_gap,            \* self.gap
    lv_size,           \* self.size: <<>> before the first sizing, else <<W, H>>
    lv_call,           \* the last calculate_size call: <<>> or <<record>>
    \* ---- Grid (clips/container.py): the last Grid(...) construction
    grid_children,     \* self.grid_children: a list of rows of clips
    grid_size,         \* self.grid_size: GridSize(column_widths, row_heights)
    grid_status,       \* "none" (nothing constructed yet), "ok", "error" (raised)
    grid_shape,        \* <<>> or <<self.rows, self.cols>>
    grid_self_size,    \* self.size: <<>> (unset) or <<width, height>>
    grid_final,        \* <<>> or <<[row_heights, col_widths]>>: self.final_col_widths, self.final_row_heights
    grid_call,         \* the last calculate_size: <<>> or <<[constraints, child_constraints]>>
    \* ---- Stack (clips/container.py): one stack and its last calculate_size
    st_children,       \* self.children: Box leaves
    st_alignment,      \* self.alignment: the Alignment's value, 0 .. 8
    st_size,           \* self.size: <<>> before the first sizing, else <<W, H>>
    st_child_offsets,  \* self._child_offsets
    st_call            \* the last calculate_size call: <<>> or <<record>>

memoVars  == <<duration, size, memoized_t, memoized_frame, gf_call>>
mergeVars == <<one, two, merged>>
lvVars    == <<lv_children, lv_axis, lv_gap, lv_size, lv_call>>
gridVars  == <<grid_children, grid_size, grid_status, grid_shape,
               grid_self_size, grid_final, grid_call>>
stackVars == <<st_children, st_alignment, st_size, st_child_offsets, st_call>>
seqVars == <<seq_children, seq_alignment, seq_size, seq_call>>
offVars == <<off_size, off_offset, off_child_memo, off_call>>
pasteVars == <<pa_canvas, pa_call>>
curveVars == <<cv_curve, cv_call>>
infVars == <<inf_call>>
treeVars == <<rt_tree, rt_call, rt_runs>>
gridFrameVars == <<gfr_node, gfr_call>>
stackFrameVars == <<sf_children, sf_alignment, sf_size, sf_child_sizes, sf_child_offsets, sf_call>>
seqNewVars == <<sn_args, sn_status, sn_children, sn_duration, sn_size, sn_memoized_t, sn_memoized_frame, sn_call>>
intervalVars == <<iv_curve, iv_call>>
animVars == <<an_status, an_args, an_offset, an_call>>
paddingVars == <<pd_padding, pd_child, pd_call>>
ownVars == <<ow_kind, ow_parent, ow_held>>
vars == <<memoVars, mergeVars, lvVars, gridVars, stackVars, seqVars, offVars, pasteVars, curveVars, infVars, treeVars, gridFrameVars, stackFrameVars, seqNewVars, intervalVars, animVars, paddingVars, ownVars>>

\* an action of one part leaves the variables of every other part alone
UnchangedExcept(part) ==
    /\ IF part = "memo" THEN TRUE ELSE UNCHANGED memoVars
    /\ IF part = "merge" THEN TRUE ELSE UNCHANGED mergeVars
    /\ IF part = "listview" THEN TRUE ELSE UNCHANGED lvVars
    /\ IF part = "grid" THEN TRUE ELSE UNCHANGED gridVars
    /\ IF part = "stack" THEN TRUE ELSE UNCHANGED stackVars
    /\ IF part = "seq" THEN TRUE ELSE UNCHANGED seqVars
    /\ IF part = "off" THEN TRUE ELSE UNCHANGED offVars
    /\ IF part = "paste" THEN TRUE ELSE UNCHANGED pasteVars
    /\ IF part = "curve" THEN TRUE ELSE UNCHANGED curveVars
    /\ IF part = "inf" THEN TRUE ELSE UNCHANGED infVars
    /\ IF part = "tree" THEN TRUE ELSE UNCHANGED treeVars
    /\ IF part = "gridframe" THEN TRUE ELSE UNCHANGED gridFrameVars
    /\ IF part = "stackframe" THEN TRUE ELSE UNCHANGED stackFrameVars
    /\ IF part = "seqnew" THEN TRUE ELSE UNCHANGED seqNewVars
    /\ IF part = "interval" THEN TRUE ELSE UNCHANGED intervalVars
    /\ IF part = "anim" THEN TRUE ELSE UNCHANGED animVars
    /\ IF part = "padding" THEN TRUE ELSE UNCHANGED paddingVars
    /\ IF part = "own" THEN TRUE ELSE UNCHANGED ownVars

\* ------------------------------------------------------------------ bounds
MaxT   == 2      \* get_frame is called with t in -1 .. MaxT + 1
MaxMergeDim == 2 \* merge_constraints: finite bounds are in 0 .. MaxMergeDim
MaxChildren == 5 \* a ListView has at most MaxChildren children ...
MaxFixed    == 2 \* ... of which at most MaxFixed are fixed (not Flex)
MaxLVDim    == 2 \* ListView: finite maximums are in 1 .. MaxLVDim
MaxRows     == 2 \* a Grid is built from at most MaxRows rows ...
MaxCols     == 2 \* ... of at most MaxCols clips each
MaxStackChildren == 2 \* a Stack has at most MaxStackChildren children
MaxStackDim == 2 \* Stack: finite maximums are in 1 .. MaxStackDim

\* ---------------------------------------------------------------- infinity
\* The singleton INF of infinity.py.  It is encoded as an integer no finite
\* size of the model reaches; the model never compares it with the built-in
\* order, only through the methods of class Infinity below.
INF == 999999

is_inf(v)    == v = INF
is_finite(v) == v # INF

\* Infinity.__lt__(self, other)
Infinity_lt(other) == FALSE
\* (mutant) __gt__ written like __lt__: never greater
Infinity_gt_Never(other) == FALSE
\* Infinity.__gt__(self, other): not (self is other)
Infinity_gt(other) == ~ is_inf(other)

\* a < b as Python evaluates it for int | Infinity operands: the left operand's
\* __lt__; int.__lt__ answers NotImplemented for an Infinity and Python then
\* asks the right operand's reflected method __gt__.
PyLt(a, b) ==
    IF is_inf(a) THEN Infinity_lt(b)
    ELSE IF is_inf(b) THEN Infinity_gt(a)
    ELSE a < b

\* a > b likewise: the left operand's __gt__, or the right operand's __lt__.
PyGt(a, b) ==
    IF is_inf(a) THEN Infinity_gt(b)
    ELSE IF is_inf(b) THEN Infinity_lt(a)
    ELSE a > b

\* The builtins min(a, b) and max(a, b): the first argument is kept unless
\* the second compares strictly below (above) it.
PyMin(a, b) == IF PyLt(b, a) THEN b ELSE a
PyMax(a, b) == IF PyGt(b, a) THEN b ELSE a

\* The mathematical order with INF as the top element, used to state claims.
Leq(a, b) == is_inf(b) \/ (is_finite(a) /\ a <= b)

\* ------------------------------------------------------------- Constraints
Constraints(minw, minh, maxw, maxh) ==
    [min_width |-> minw, min_height |-> minh, max_width |-> maxw, max_height |-> maxh]

\* LayouterClip.merge_constraints(one, two)
merge_constraints(a, b) ==
    Constraints(PyMax(a.min_width, b.min_width),
                PyMax(a.min_height, b.min_height),
                PyMin(a.max_width, b.max_width),
                PyMin(a.max_height, b.max_height))

\* every Constraints value with minimums in 0 .. n and maximums in 0 .. n or INF
ConstraintsUpTo(n) ==
    { Constraints(a, b, c, d) : a \in 0 .. n, b \in 0 .. n,
                                c \in (0 .. n) \cup {INF}, d \in (0 .. n) \cup {INF} }
WellFormed(c) == Leq(c.min_width, c.max_width) /\ Leq(c.min_height, c.max_height)

\* ------------------------------------------------------------ LayouterClip
\* Python truthiness of Optional[float]: None and 0 are falsy.
Truthy(opt) == opt # <<>> /\ opt[1] # 0

\* A raster: its shape (rows by cols by 4 channels) and what it shows:
\* content <<>> is all zeros (fully transparent), <<t>> is the node's own
\* picture of time t.

\* LayouterClip.frame_function: np.zeros((*self.size, 4))
LayouterClip_frame_function(sz) ==
    [rows |-> sz[1], cols |-> sz[2], content |-> <<>>]

\* The overriding frame_function of the node under get_frame: some raster of
\* the node's size that depends on t.
frame_function(sz, t) ==
    [rows |-> sz[2], cols |-> sz[1], content |-> <<t>>]

\* (mutant) the memo answers whenever it holds a frame, whatever its time
MemoHit_AnyTime(mt, mf, t) == mf # <<>>
\* get_frame, line 78: the memo answers the call
MemoHit(mt, mf, t) == mt = <<t>> /\ mf # <<>>

\* get_frame, line 81: t is out of bounds
OutOfBounds(d, t) == t < 0 \/ (Truthy(d) /\ d[1] < t)

Times     == -1 .. MaxT + 1
\* a node has no duration or a positive one
Durations == {<<>>} \cup { <<d>> : d \in 1 .. MaxT }
Sizes     == { <<w, h>> : w \in 1 .. 2, h \in 1 .. 2 }

MemoIdle ==
    /\ duration = <<>>
    /\ size = <<0, 0>>
    /\ memoized_t = <<>>
    /\ memoized_frame = <<>>
    /\ gf_call = <<>>

\* LayouterClip.__init__ and the sizing pass: a node with a duration and a size
MemoInit ==
    /\ duration \in Durations
    /\ size \in Sizes
    /\ memoized_t = <<>>
    /\ memoized_frame = <<>>
    /\ gf_call = <<>>

\* LayouterClip.get_frame(t)
get_frame(t) ==
    /\ IF MemoHit(memoized_t, memoized_frame, t)
       THEN /\ gf_call' = << [t |-> t, ret |-> memoized_frame[1], computed |-> 0] >>
            /\ UNCHANGED <<memoized_t, memoized_frame>>
       ELSE /\ memoized_t' = <<t>>
            /\ IF OutOfBounds(duration, t)
               THEN /\ gf_call' = << [t |-> t,
                                      ret |-> LayouterClip_frame_function(size),
                                      computed |-> 0] >>
                    /\ UNCHANGED memoized_frame
               ELSE /\ memoized_frame' = << frame_function(size, t) >>
                    /\ gf_call' = << [t |-> t,
                                      ret |-> frame_function(size, t),
                                      computed |-> 1] >>
    /\ UNCHANGED <<duration, size>>
    /\ UnchangedExcept("memo")

NextMemo == \E t \in Times : get_frame(t)

\* ------------------------------------------------------- merge_constraints
MergeIdle ==
    /\ one = Constraints(0, 0, INF, INF)
    /\ two = Constraints(0, 0, INF, INF)
    /\ merged = <<>>

MergeInit ==
    /\ one \in ConstraintsUpTo(MaxMergeDim)
    /\ two \in ConstraintsUpTo(MaxMergeDim)
    /\ merged = <<>>

\* a call of merge_constraints(one, two)
Merge ==
    /\ merged = <<>>
    /\ merged' = << merge_constraints(one, two) >>
    /\ UNCHANGED <<one, two>>
    /\ UnchangedExcept("merge")

NextMerge == Merge

\* ---------------------------------------------------------------- Box leaf
\* A Box(size=(w, h), use_max=..., child=None): the fixed children of the
\* containers below.  Box.calculate_size, the branch with self._size set and
\* no child; a component of self._size that is 0 is falsy.
Box_calculate_size(b, constraints) ==
    LET c == Constraints(
                IF b.w # 0 THEN b.w ELSE constraints.min_width,
                IF b.h # 0 THEN b.h ELSE constraints.min_height,
                IF b.w # 0 THEN b.w ELSE constraints.max_width,
                IF b.h # 0 THEN b.h ELSE constraints.max_height)
        m == merge_constraints(constraints, c)
    IN  << IF b.use_max /\ is_finite(m.max_width) THEN m.max_width ELSE m.min_width,
           IF b.use_max /\ is_finite(m.max_height) THEN m.max_height ELSE m.min_height >>

\* ---------------------------------------------------------------- ListView
\* class Axis
Vertical   == 1
Horizontal == 0

Abs(n) == IF n < 0 THEN -n ELSE n

\* A child of the list: a Flex (type(c) is Flex) or a fixed Box leaf.
FlexChild   == [w |-> 0, h |-> 0, use_max |-> FALSE, flex |-> TRUE]
BoxChild(w, h) == [w |-> w, h |-> h, use_max |-> FALSE, flex |-> FALSE]
LVChildKinds == {FlexChild, BoxChild(1, 2), BoxChild(2, 1)}

NumFixed(children) == Cardinality({ i \in 1 .. Len(children) : ~ children[i].flex })

LVChildLists ==
    { cs \in UNION { [1 .. n -> LVChildKinds] : n \in 0 .. MaxChildren } :
        NumFixed(cs) <= MaxFixed }

\* the constraints calculate_size is called with: min <= max on both axes
LVMaxDims == (1 .. MaxLVDim) \cup {INF}
LVConstraints ==
    { Constraints(m, m, cw, ch) : m \in 0 .. 1, cw \in LVMaxDims, ch \in LVMaxDims }

\* ListView.calculate_size, lines 45-56: the loop over self.children.  st is
\* the loop's state: con, main_axis_size, cross_axis_size, flex_children (the
\* positions of the Flex children) and, for every fixed child measured, the
\* constraints it was handed and the size it answered.
RECURSIVE LV_measure(_, _, _, _, _)
LV_measure(children, axis, gap, i, st) ==
    IF i > Len(children) THEN st
    ELSE IF children[i].flex
    THEN LV_measure(children, axis, gap, i + 1,
                    [st EXCEPT !.flex_children = Append(@, i)])
    ELSE
        LET con   == st.con
            cs    == Box_calculate_size(children[i], con)
            main  == st.main_axis_size + cs[axis + 1]
            cross == PyMin(IF axis = Vertical THEN con.max_width ELSE con.max_height,
                           PyMax(st.cross_axis_size, cs[((axis + 1) % 2) + 1]))
            con2  == IF axis = Vertical
                     THEN [con EXCEPT !.min_height =
                              PyMin(con.max_height, con.min_height + main + gap)]
                     ELSE [con EXCEPT !.min_width =
                              PyMin(con.max_width, con.min_width + main + gap)]
        IN  LV_measure(children, axis, gap, i + 1,
                       [con |-> con2,
                        main_axis_size  |-> main,
                        cross_axis_size |-> cross,
                        flex_children   |-> st.flex_children,
                        measured |-> Append(st.measured, [con |-> con, size |-> cs])])

\* (mutant) the check looks at the cross axis's maximum
LV_raises_CrossAxis(nflex, constraints, axis) ==
    /\ nflex # 0
    /\ is_inf(IF axis = Vertical THEN constraints.max_width ELSE constraints.max_height)
\* ListView.calculate_size, lines 58-62: the check that raises ValueError
LV_raises(nflex, constraints, axis) ==
    /\ nflex # 0
    /\ is_inf(IF axis = Vertical THEN constraints.max_height ELSE constraints.max_width)

\* ListView.calculate_size, lines 72-77: the loop over flex_children; the
\* result is the sequence of Constraints(*s, *s) the Flex children are sized
\* with, in order.
RECURSIVE LV_distribute(_, _, _, _, _, _)
LV_distribute(k, sz, axis, remaining, piece, acc) ==
    IF k = 0 THEN acc
    ELSE
        LET s    == IF axis = Vertical THEN <<sz[1], piece>> ELSE <<piece, sz[2]>>
            rem2 == remaining - piece
        IN  LV_distribute(k - 1, sz, axis, rem2,
                          IF Abs(rem2) = 1 THEN piece + rem2 ELSE piece,
                          Append(acc, Constraints(s[1], s[2], s[1], s[2])))

\* ListView.calculate_size, lines 58-79: after the loop over the children
LV_finish(st, axis, constraints) ==
    LET n  == Len(st.flex_children)
        base == [constraints |-> constraints, raised |-> FALSE, ret |-> <<>>,
                 measured |-> st.measured, main_axis_size |-> st.main_axis_size,
                 flex_children |-> st.flex_children, flex_constraints |-> <<>>]
    IN  IF LV_raises(n, constraints, axis)
        THEN [base EXCEPT !.raised = TRUE]
        ELSE IF n = 0
        THEN [base EXCEPT !.ret = << st.con.min_width, st.con.min_height >>]
        ELSE
            LET sz == IF axis = Vertical
                      THEN << st.cross_axis_size, st.con.max_height >>
                      ELSE << st.con.max_width, st.cross_axis_size >>
                remaining == sz[axis + 1] - st.main_axis_size
                piece == remaining \div n
            IN  [base EXCEPT !.ret = sz,
                             !.flex_constraints =
                                 LV_distribute(n, sz, axis, remaining, piece, <<>>)]

\* ListView.calculate_size(constraints) as a whole: what it raises or
\* returns, and what it hands to each child.
LV_calculate_size(children, axis, gap, constraints) ==
    LV_finish(LV_measure(children, axis, gap, 1,
                  [con |-> Constraints(0, 0, constraints.max_width, constraints.max_height),
                   main_axis_size |-> 0, cross_axis_size |-> 0,
                   flex_children |-> <<>>, measured |-> <<>>]),
              axis, constraints)

LVIdle ==
    /\ lv_children = <<>>
    /\ lv_axis = Vertical
    /\ lv_gap = 0
    /\ lv_size = <<>>
    /\ lv_call = <<>>

\* ListView.__init__
LVInit ==
    /\ lv_children \in LVChildLists
    /\ lv_axis \in {Vertical, Horizontal}
    /\ lv_gap \in {0, 1}
    /\ lv_size = <<>>
    /\ lv_call = <<>>

\* ListView.calculate_size(constraints): a raise leaves self.size as it was
ListView_calculate_size(constraints) ==
    \E call \in { LV_calculate_size(lv_children, lv_axis, lv_gap, constraints) } :
    /\ lv_call' = << call >>
    /\ lv_size' = IF call.raised THEN lv_size ELSE call.ret
    /\ UNCHANGED <<lv_children, lv_axis, lv_gap>>
    /\ UnchangedExcept("listview")

NextListView == \E c \in LVConstraints : ListView_calculate_size(c)

\* -------------------------------------------------------------------- Grid
\* @dataclass GridCellSize
GridCellSize(value, is_percentage, gap) ==
    [gap |-> gap, value |-> value, is_percentage |-> is_percentage]
\* @dataclass GridSize
GridSize(column_widths, row_heights) ==
    [column_widths |-> column_widths, row_heights |-> row_heights]

\* a row of n clips
GridRow(n) == [i \in 1 .. n |-> 1]
GridMatrices ==
    UNION { [1 .. r -> { GridRow(n) : n \in 0 .. MaxCols }] : r \in 0 .. MaxRows }
\* a list of n cell sizes
CellSpecs(n, cell) == [i \in 1 .. n |-> cell]

\* Grid._validate_grid_shape: TRUE when it raises ValueError
Grid_validate_grid_shape(children, gsize) ==
    IF children = <<>> THEN FALSE        \* "Empty grid is valid": early return
    ELSE \/ \E r \in 1 .. Len(children) : Len(children[r]) # Len(children[1])
         \/ Len(gsize.row_heights) # Len(children)
         \/ Len(gsize.column_widths) # Len(children[1])

GridIdle ==
    /\ grid_children = <<>>
    /\ grid_size = GridSize(<<>>, <<>>)
    /\ grid_status = "none"
    /\ grid_shape = <<>>
    /\ grid_self_size = <<>>
    /\ grid_final = <<>>
    /\ grid_call = <<>>

GridInit == GridIdle

\* Grid.__init__(grid_children, grid_size): the one construction of the object
Grid_init(children, gsize) ==
    /\ grid_status = "none"
    /\ grid_children' = children
    /\ grid_size' = gsize
    /\ IF Grid_validate_grid_shape(children, gsize)
       THEN /\ grid_status' = "error"
            /\ grid_shape' = <<>>
       ELSE /\ grid_status' = "ok"
            /\ grid_shape' = << Len(children),
                                IF Len(children) > 0 THEN Len(children[1]) ELSE 0 >>
    /\ grid_self_size' = <<>>
    /\ grid_final' = <<>>
    /\ grid_call' = <<>>
    /\ UnchangedExcept("grid")

\* GridCellSize.get_pixel_value(total_dimension): int() truncates towards 0
GridCellSize_get_pixel_value(cell, total_dimension) ==
    IF cell.is_percentage
    THEN IF cell.value * total_dimension >= 0
         THEN (cell.value * total_dimension) \div 100
         ELSE -((-(cell.value * total_dimension)) \div 100)
    ELSE cell.value

\* lines 181-186: the constraints handed to the child of row spec rs and
\* column spec cs
Grid_child_constraints(rs, cs, constraints) ==
    Constraints(
        GridCellSize_get_pixel_value(cs, constraints.min_width) - cs.gap,
        GridCellSize_get_pixel_value(rs, constraints.min_height) - rs.gap,
        IF is_finite(constraints.max_width)
        THEN GridCellSize_get_pixel_value(cs, constraints.max_width) - cs.gap
        ELSE INF,
        IF is_finite(constraints.max_height)
        THEN GridCellSize_get_pixel_value(rs, constraints.max_height) - rs.gap
        ELSE INF)

\* lines 201-208: the grid's own size
Grid_final_size(constraints) ==
    << IF is_finite(constraints.max_width)
       THEN PyMin(constraints.min_width, constraints.max_width)
       ELSE constraints.min_width,
       IF is_finite(constraints.max_height)
       THEN PyMin(constraints.min_height, constraints.max_height)
       ELSE constraints.min_height >>

\* lines 216-223: a cell's pixel dimension used by frame_function
Grid_final_cell(cell, final_dimension) ==
    GridCellSize_get_pixel_value(cell, final_dimension) + cell.gap

\* the cell specs and the constraints calculate_size is called with
GridCellKinds ==
    { GridCellSize(1, FALSE, 0), GridCellSize(50, TRUE, 0), GridCellSize(1, FALSE, 2) }
GridConstraints ==
    { Constraints(a, b, cw, ch) : a \in {0, 4}, b \in {0, 4},
                                  cw \in {4, INF}, ch \in {4, INF} }

\* Grid.calculate_size(constraints), on a grid that was built
Grid_calculate_size(constraints) ==
    /\ grid_status = "ok"
    /\ grid_call' = << [constraints |-> constraints,
                        child_constraints |->
                            [r \in 1 .. Len(grid_children) |->
                                [c \in 1 .. Len(grid_children[r]) |->
                                    Grid_child_constraints(grid_size.row_heights[r],
                                                           grid_size.column_widths[c],
                                                           constraints)]]] >>
    /\ grid_self_size' = Grid_final_size(constraints)
    /\ grid_final' = << [row_heights |->
                            [r \in 1 .. Len(grid_size.row_heights) |->
                                Grid_final_cell(grid_size.row_heights[r],
                                                Grid_final_size(constraints)[2])],
                         col_widths |->
                            [c \in 1 .. Len(grid_size.column_widths) |->
                                Grid_final_cell(grid_size.column_widths[c],
                                                Grid_final_size(constraints)[1])]] >>
    /\ UNCHANGED <<grid_children, grid_size, grid_status, grid_shape>>
    /\ UnchangedExcept("grid")

NextGrid ==
    \/ \E children \in GridMatrices, nr \in 0 .. MaxRows + 1, nc \in 0 .. MaxCols + 1,
          kr \in GridCellKinds, kc \in GridCellKinds :
            Grid_init(children, GridSize(CellSpecs(nc, kc), CellSpecs(nr, kr)))
    \/ \E c \in GridConstraints : Grid_calculate_size(c)

\* ------------------------------------------------------------------- Stack
StackBox(w, h, use_max) == [w |-> w, h |-> h, use_max |-> use_max]
StackChildKinds == { StackBox(sz[1], sz[2], um) : sz \in {<<1, 2>>, <<2, 1>>}, um \in BOOLEAN }
StackChildLists == UNION { [1 .. n -> StackChildKinds] : n \in 0 .. MaxStackChildren }
StackMaxDims == (1 .. MaxStackDim) \cup {INF}
\* the constraints calculate_size is called with: min <= max on both axes
StackConstraints ==
    { Constraints(a, b, cw, ch) : a \in 0 .. 1, b \in 0 .. 1,
                                  cw \in StackMaxDims, ch \in StackMaxDims }

\* max(list) of Python: the first item is kept unless a later one is greater
RECURSIVE PyMaxList(_)
PyMaxList(q) ==
    IF Len(q) = 1 THEN q[1]
    ELSE PyMax(PyMaxList(SubSeq(q, 1, Len(q) - 1)), q[Len(q)])

\* (mutant) the parent's constraints are passed down as they are
Stack_child_constraints_PassDown(constraints) == constraints
\* Stack.calculate_size, line 379: what every child is measured against
Stack_child_constraints(constraints) ==
    Constraints(0, 0, constraints.max_width, constraints.max_height)

\* Stack.calculate_size, lines 385-392: the stack's own size
Stack_size(child_sizes, constraints) ==
    LET max_w == PyMaxList([k \in 1 .. Len(child_sizes) |-> child_sizes[k][1]]
                           \o << constraints.min_width >>)
        max_h == PyMaxList([k \in 1 .. Len(child_sizes) |-> child_sizes[k][2]]
                           \o << constraints.min_height >>)
    IN  << PyMin(max_w, constraints.max_width), PyMin(max_h, constraints.max_height) >>

\* (mutant) a centred child is put at the far edge
Stack_get_offset_CentreAtEnd(alignment, parent_w, parent_h, child_w, child_h) ==
    << IF alignment \in {0, 3, 6} THEN 0 ELSE parent_w - child_w,
       IF alignment \in {0, 1, 2} THEN 0 ELSE parent_h - child_h >>
\* Stack._get_offset; the alignment is the value of the Alignment enum:
\* TopLeft 0, Top 1, TopRight 2, Left 3, Center 4, Right 5, BottomLeft 6,
\* Bottom 7, BottomRight 8
Stack_get_offset(alignment, parent_w, parent_h, child_w, child_h) ==
    << IF alignment \in {0, 3, 6} THEN 0
       ELSE IF alignment \in {1, 4, 7} THEN (parent_w - child_w) \div 2
       ELSE parent_w - child_w,
       IF alignment \in {0, 1, 2} THEN 0
       ELSE IF alignment \in {3, 4, 5} THEN (parent_h - child_h) \div 2
       ELSE parent_h - child_h >>

StackIdle ==
    /\ st_children = <<>>
    /\ st_alignment = 0
    /\ st_size = <<>>
    /\ st_child_offsets = <<>>
    /\ st_call = <<>>

\* Stack.__init__
StackInit ==
    /\ st_children \in StackChildLists
    /\ st_alignment \in 0 .. 8
    /\ st_size = <<>>
    /\ st_child_offsets = <<>>
    /\ st_call = <<>>

\* Stack.calculate_size(constraints)
Stack_calculate_size(constraints) ==
    \E handed \in { [k \in 1 .. Len(st_children) |-> Stack_child_constraints(constraints)] } :
    \E child_sizes \in { [k \in 1 .. Len(st_children) |->
                            Box_calculate_size(st_children[k], handed[k])] } :
    \E sz \in { Stack_size(child_sizes, constraints) } :
        /\ st_size' = sz
        /\ st_child_offsets' =
               [k \in 1 .. Len(child_sizes) |->
                   Stack_get_offset(st_alignment, sz[1], sz[2],
                                    child_sizes[k][1], child_sizes[k][2])]
        /\ st_call' = << [constraints |-> constraints, handed |-> handed,
                          child_sizes |-> child_sizes, ret |-> sz] >>
        /\ UNCHANGED <<st_children, st_alignment>>
        /\ UnchangedExcept("stack")

NextStack == \E c \in StackConstraints : Stack_calculate_size(c)

\* -------------------------------------------------------------- Sequential
MaxSeqChildren == 3 \* a Sequential has 1 .. MaxSeqChildren children
MaxSeqDur      == 2 \* each with a duration in 1 .. MaxSeqDur

\* A child of the sequence: a leaf Box subclass that draws itself (size set,
\* no child) and has a duration; size is <<>> until the sizing pass.
SeqChild(w, h, d) ==
    [w |-> w, h |-> h, use_max |-> FALSE, duration |-> d, size |-> <<>>,
     memoized_t |-> <<>>, memoized_frame |-> <<>>]
SeqChildKinds == { SeqChild(sz[1], sz[2], d) : sz \in {<<1, 2>>, <<2, 1>>}, d \in 1 .. MaxSeqDur }
SeqChildLists == UNION { [1 .. n -> SeqChildKinds] : n \in 1 .. MaxSeqChildren }
SeqAlignments == {0, 8}
SeqConstraints == { Constraints(0, 0, INF, INF) }

RECURSIVE SeqSum(_, _)
\* sum(child.duration for child in children[:n])
SeqSum(children, n) == IF n = 0 THEN 0 ELSE SeqSum(children, n - 1) + children[n].duration

\* frame_function is rendered at the times 0 .. total duration + 1
SeqTimes(children) == 0 .. SeqSum(children, Len(children)) + 1

\* np.zeros((H, W, 4)): the fully transparent frame of a node of size sz
EmptyFrame(sz) == [rows |-> sz[2], cols |-> sz[1], content |-> <<>>]

RECURSIVE Seq_select(_, _, _, _)
\* (mutant) the last instant of a child's window still belongs to the child
Seq_select_Closed(children, t, i, current_time) ==
    IF i > Len(children) THEN [active |-> 0, t_prime |-> 0]
    ELSE IF t <= current_time + children[i].duration
         THEN [active |-> i, t_prime |-> t - current_time]
         ELSE Seq_select(children, t, i + 1, current_time + children[i].duration)

\* Sequential.frame_function, lines 301-316: the walk over the children from
\* child i on with current_time elapsed; active 0 is active_child None
Seq_select(children, t, i, current_time) ==
    IF i > Len(children) THEN [active |-> 0, t_prime |-> 0]
    ELSE IF t < current_time + children[i].duration
         THEN [active |-> i, t_prime |-> t - current_time]
         ELSE Seq_select(children, t, i + 1, current_time + children[i].duration)

\* the walk as frame_function starts it
Seq_select_from_start(children, t) == Seq_select(children, t, 1, 0)

\* child.get_frame(t) (LayouterClip.get_frame on the child): the frame it
\* returns and the child afterwards
Seq_child_get_frame(c, t) ==
    IF MemoHit(c.memoized_t, c.memoized_frame, t)
    THEN [ret |-> c.memoized_frame[1], child |-> c]
    ELSE IF OutOfBounds(<<c.duration>>, t)
         THEN [ret |-> LayouterClip_frame_function(c.size),
               child |-> [c EXCEPT !.memoized_t = <<t>>]]
         ELSE [ret |-> frame_function(c.size, t),
               child |-> [c EXCEPT !.memoized_t = <<t>>,
                                   !.memoized_frame = << frame_function(c.size, t) >>]]

\* Sequential.frame_function, lines 331-346: where the child's frame goes
Seq_offset(alignment, W, H, child_W, child_H) ==
    << IF alignment \in {2, 5, 8} THEN W - child_W
       ELSE IF alignment \in {1, 4, 7} THEN (W - child_W) \div 2
       ELSE 0,
       IF alignment \in {6, 7, 8} THEN H - child_H
       ELSE IF alignment \in {3, 4, 5} THEN (H - child_H) \div 2
       ELSE 0 >>

SeqIdle ==
    /\ seq_children = <<>>
    /\ seq_alignment = 0
    /\ seq_size = <<>>
    /\ seq_call = <<>>

\* Sequential.__init__
SeqInit ==
    /\ seq_children \in SeqChildLists
    /\ seq_alignment \in SeqAlignments
    /\ seq_size = <<>>
    /\ seq_call = <<>>

\* Sequential.calculate_size(constraints)
Sequential_calculate_size(constraints) ==
    \E sizes \in { [k \in 1 .. Len(seq_children) |->
                      Box_calculate_size(seq_children[k], constraints)] } :
        /\ seq_children' = [k \in 1 .. Len(seq_children) |->
                               [seq_children[k] EXCEPT !.size = sizes[k]]]
        /\ seq_size' = << PyMaxList([k \in 1 .. Len(sizes) |-> sizes[k][1]]),
                          PyMaxList([k \in 1 .. Len(sizes) |-> sizes[k][2]]) >>
        /\ UNCHANGED <<seq_alignment, seq_call>>
        /\ UnchangedExcept("seq")

\* Sequential.frame_function(t), once the sizing pass has set the sizes
Sequential_frame_function(t) ==
    /\ seq_size # <<>>
    /\ \E sel \in { Seq_select_from_start(seq_children, t) } :
          IF sel.active = 0
          THEN /\ seq_call' = << [t |-> t, active |-> 0, t_prime |-> sel.t_prime,
                                  ret |-> EmptyFrame(seq_size)] >>
               /\ UNCHANGED seq_children
          ELSE \E got \in { Seq_child_get_frame(seq_children[sel.active], sel.t_prime) } :
               \E off \in { Seq_offset(seq_alignment, seq_size[1], seq_size[2],
                                       got.ret.cols, got.ret.rows) } :
                   /\ seq_children' = [seq_children EXCEPT ![sel.active] = got.child]
                   /\ seq_call' = << [t |-> t, active |-> sel.active,
                                      t_prime |-> sel.t_prime,
                                      ret |-> [rows |-> seq_size[2], cols |-> seq_size[1],
                                               content |-> << [dx |-> off[1], dy |-> off[2],
                                                               frame |-> got.ret] >>]] >>
    /\ UNCHANGED <<seq_alignment, seq_size>>
    /\ UnchangedExcept("seq")

NextSequential ==
    \/ \E c \in SeqConstraints : Sequential_calculate_size(c)
    \/ \E t \in SeqTimes(seq_children) : Sequential_frame_function(t)

\* ---------------------------------------------------------------- Offseted
MaxOffDim == 3 \* an Offseted node is 1 .. MaxOffDim pixels wide and high
OffsetDen == 4 \* offset.dx and offset.dy are multiples of 1 / OffsetDen

\* A raster with pixels: a sequence of rows, each a sequence of pixels; the
\* pixel 0 is [0, 0, 0, 0] (fully transparent), any other is opaque content.
Rows(f) == Len(f)
Cols(f) == IF Len(f) = 0 THEN 0 ELSE Len(f[1])
Zeros(rows, cols) == [r \in 1 .. rows |-> [c \in 1 .. cols |-> 0]]

\* the child's own picture of time t: H rows of W pixels, all different and
\* none transparent
Off_child_frame(sz, t) ==
    [r \in 1 .. sz[2] |-> [c \in 1 .. sz[1] |-> 1 + (c - 1) + (r - 1) * sz[1] + t * sz[1] * sz[2]]]

\* rigged_round(v) for v = num / OffsetDen: floor below zero, else ceil
rigged_round(num) ==
    IF num < 0 THEN num \div OffsetDen ELSE - ((- num) \div OffsetDen)

\* (mutant) only the horizontal offset is tested
Off_out_of_frame_DxOnly(offset) == Abs(offset[1]) >= OffsetDen
\* Offseted.frame_function, line 194: abs(dx) >= 1 or abs(dy) >= 1
Off_out_of_frame(offset) == Abs(offset[1]) >= OffsetDen \/ Abs(offset[2]) >= OffsetDen

\* np.roll(frame, (px, py), (1, 0)): columns move right by px, rows down by
\* py, both circularly
np_roll(frame, px, py) ==
    [r \in 1 .. Rows(frame) |-> [c \in 1 .. Cols(frame) |->
        frame[((r - 1 - py) % Rows(frame)) + 1][((c - 1 - px) % Cols(frame)) + 1]]]

\* the indices (from 0) that the slice a:b selects in a dimension of length n
PySliceIndex(a, n) == IF a < 0 THEN (IF a + n < 0 THEN 0 ELSE a + n)
                      ELSE (IF a > n THEN n ELSE a)
PySlice(a, b, n) == { i \in 0 .. n - 1 : PySliceIndex(a, n) <= i /\ i < PySliceIndex(b, n) }

\* (mutant) the band is cleared from the low edge whatever the sign
Off_clear_range_LowEdge(sz, px, py) == << <<0, px>>, <<0, py>> >>
\* Offseted.frame_function, lines 208-222: the bands to clear
Off_clear_range(sz, px, py) ==
    << IF px < 0 THEN << sz[1] + px, sz[1] >> ELSE << 0, px >>,
       IF py < 0 THEN << sz[2] + py, sz[2] >> ELSE << 0, py >> >>

\* Offseted.frame_function, lines 224-228: frame[:, a:b] = empty and
\* frame[a:b, :] = empty for the bands that are not of length 0
Off_clear(frame, cr) ==
    LET colsCleared == IF cr[1][2] - cr[1][1] # 0
                       THEN PySlice(cr[1][1], cr[1][2], Cols(frame)) ELSE {}
        rowsCleared == IF cr[2][2] - cr[2][1] # 0
                       THEN PySlice(cr[2][1], cr[2][2], Rows(frame)) ELSE {}
    IN  [r \in 1 .. Rows(frame) |-> [c \in 1 .. Cols(frame) |->
            IF (c - 1) \in colsCleared \/ (r - 1) \in rowsCleared
            THEN 0 ELSE frame[r][c]]]

OffSizes   == { <<w, h>> : w \in 1 .. MaxOffDim, h \in 1 .. MaxOffDim }
OffOffsets == { <<kx, ky>> : kx \in -(OffsetDen + 1) .. OffsetDen + 1,
                             ky \in -(OffsetDen + 1) .. OffsetDen + 1 }
OffTimes   == 0 .. 1

OffIdle ==
    /\ off_size = <<0, 0>>
    /\ off_offset = <<0, 0>>
    /\ off_child_memo = <<>>
    /\ off_call = <<>>

\* Offseted.__init__ and the sizing pass (Offseted.calculate_size)
OffInit ==
    /\ off_size \in OffSizes
    /\ off_offset \in OffOffsets
    /\ off_child_memo = <<>>
    /\ off_call = <<>>

\* self.child.get_frame(t) for a child without a duration and t >= 0: the
\* memoized frame of the same t, else the child's frame_function(t)
Off_child_get_frame(memo, sz, t) ==
    IF MemoHit(IF memo = <<>> THEN <<>> ELSE << memo[1].t >>,
               IF memo = <<>> THEN <<>> ELSE << memo[1].frame >>, t)
    THEN memo[1].frame
    ELSE Off_child_frame(sz, t)

\* Offseted.frame_function(t)
Offseted_frame_function(t) ==
    /\ IF Off_out_of_frame(off_offset)
       THEN /\ off_call' = << [t |-> t, px |-> 0, py |-> 0, child_frame |-> <<>>,
                               ret |-> Zeros(off_size[1], off_size[2])] >>
            /\ UNCHANGED off_child_memo
       ELSE \E frame \in { Off_child_get_frame(off_child_memo, off_size, t) } :
            \E px \in { rigged_round(off_size[1] * off_offset[1]) } :
            \E py \in { rigged_round(off_size[2] * off_offset[2]) } :
                /\ off_child_memo' = << [t |-> t, frame |-> frame] >>
                /\ off_call' = << [t |-> t, px |-> px, py |-> py, child_frame |-> frame,
                                   ret |-> IF off_offset = <<0, 0>> THEN frame
                                           ELSE Off_clear(np_roll(frame, px, py),
                                                          Off_clear_range(off_size, px, py))] >>
    /\ UNCHANGED <<off_size, off_offset>>
    /\ UnchangedExcept("off")

NextOffseted == \E t \in OffTimes : Offseted_frame_function(t)

\* ------------------------------------------------------- paste_image_array
MaxCanvasDim == 2 \* the canvas is 1 .. MaxCanvasDim pixels wide and high
MaxSourceDim == 3 \* the pasted frame is 1 .. MaxSourceDim pixels wide and high

\* A pixel is <<rgb, alpha>>: rgb stands for the three colour channels (the
\* code treats them alike), alpha is 0 .. 255.
\* lines 43-44: ((1 - a/255) * old + (a/255) * new).astype(uint8)
Paste_blend(old, new, a) == ((255 - a) * old + a * new) \div 255
\* lines 47-49: ((old/255 + a/255 * (1 - old/255)) * 255).astype(uint8)
Paste_alpha(old, a) == (255 * old + a * (255 - old)) \div 255

\* frame[:b] of a dimension of length n: how many items it keeps
PyPrefixLen(b, n) == Cardinality(PySlice(0, b, n))

\* line 30: the rows (columns) of canvas[y_start:y_end, x_start:x_end]
Paste_region(start, end, n) == PySlice(start, end, n)

\* numpy broadcasting of the drawn block (d items) onto the region (r items)
\* along one axis, in the arithmetic of lines 43, 48 and the assignments of
\* lines 44, 49: it fails unless the lengths agree or the block has length 1
Paste_broadcasts(d, r) == d = r \/ d = 1

\* The whole function: the canvas afterwards and whether it raised.
paste_image_array(canvas, frame, pos) ==
    LET height  == Rows(canvas)
        width   == Cols(canvas)
        child_h == Rows(frame)
        child_w == Cols(frame)
        x       == pos[1]
        y       == pos[2]
        y_end   == IF y + child_h < height THEN y + child_h ELSE height
        x_end   == IF x + child_w < width THEN x + child_w ELSE width
        draw_h  == PyPrefixLen(y_end - y, child_h)
        draw_w  == PyPrefixLen(x_end - x, child_w)
        rrows   == Paste_region(y, y_end, height)
        rcols   == Paste_region(x, x_end, width)
        ok      == /\ Paste_broadcasts(draw_h, Cardinality(rrows))
                   /\ Paste_broadcasts(draw_w, Cardinality(rcols))
        r0      == IF rrows = {} THEN 0 ELSE CHOOSE i \in rrows : \A j \in rrows : i <= j
        c0      == IF rcols = {} THEN 0 ELSE CHOOSE i \in rcols : \A j \in rcols : i <= j
        src(r, c) == frame[IF draw_h = 1 THEN 1 ELSE r - r0 + 1]
                          [IF draw_w = 1 THEN 1 ELSE c - c0 + 1]
    IN  IF ~ ok THEN [raised |-> TRUE, canvas |-> canvas]
        ELSE [raised |-> FALSE,
              canvas |-> [r \in 1 .. height |-> [c \in 1 .. width |->
                  IF (r - 1) \in rrows /\ (c - 1) \in rcols
                  THEN << Paste_blend(canvas[r][c][1], src(r - 1, c - 1)[1], src(r - 1, c - 1)[2]),
                          Paste_alpha(canvas[r][c][2], src(r - 1, c - 1)[2]) >>
                  ELSE canvas[r][c]]]]

\* canvases: every pixel fully transparent or half-transparent grey
CanvasPixels == { <<0, 0>>, <<1, 128>> }
Canvases == UNION { [1 .. h -> [1 .. w -> CanvasPixels]] : w \in 1 .. MaxCanvasDim, h \in 1 .. MaxCanvasDim }
\* sources: all pixels of one alpha, 255 or 0, and of different colours
SourceFrame(w, h, a) == [i \in 1 .. h |-> [j \in 1 .. w |-> << 2 + (j - 1) + (i - 1) * w, a >>]]
SourceFrames == { SourceFrame(w, h, a) : w \in 1 .. MaxSourceDim, h \in 1 .. MaxSourceDim, a \in {0, 255} }
PastePositions == { <<x, y>> : x \in -MaxSourceDim .. MaxCanvasDim + 1, y \in -MaxSourceDim .. MaxCanvasDim + 1 }

PasteIdle ==
    /\ pa_canvas = <<>>
    /\ pa_call = <<>>

PasteInit ==
    /\ pa_canvas \in Canvases
    /\ pa_call = <<>>

\* a call of paste_image_array(canvas, frame, pos)
Paste(frame, pos) ==
    /\ pa_call = <<>>
    /\ \E res \in { paste_image_array(pa_canvas, frame, pos) } :
          /\ pa_canvas' = res.canvas
          /\ pa_call' = << [before |-> pa_canvas, frame |-> frame, pos |-> pos,
                            raised |-> res.raised] >>
    /\ UnchangedExcept("paste")

NextPaste == \E frame \in SourceFrames, pos \in PastePositions : Paste(frame, pos)

\* ------------------------------------------------------------------ curves
CurveGrid == 4  \* inputs and control points are multiples of 1 / CurveGrid
MaxBisect == 16 \* Cubic.transform is followed for at most MaxBisect rounds

\* The floats of curves.py are fixed-point numbers: the integer n stands for
\* n / FixedPoint.  A product is rescaled after each multiplication, a
\* quotient is rounded down.
FixedPoint == 2 ^ 14
FxMul(a, b) == (a * b) \div FixedPoint
FxDiv(a, b) == IF b > 0 THEN (a * FixedPoint) \div b ELSE ((- a) * FixedPoint) \div (- b)
\* the grid point k / CurveGrid
FxGrid(k) == (k * FixedPoint) \div CurveGrid

\* (mutant) clamp that lets every value through
clamp_Identity(v, begin, end) == v
\* clamp(v, begin, end)
clamp(v, begin, end) ==
    LET v1 == IF v < begin THEN begin ELSE v
    IN  IF v1 > end THEN end ELSE v1

\* Cubic._eval_cubic(a, b, m)
Cubic_eval_cubic(a, b, m) ==
      FxMul(FxMul(FxMul(3 * a, FixedPoint - m), FixedPoint - m), m)
    + FxMul(FxMul(FxMul(3 * b, FixedPoint - m), m), m)
    + FxMul(FxMul(m, m), m)

RECURSIVE Cubic_bisect(_, _, _, _, _)
\* Cubic.transform, lines 57-65: the loop from the interval [start, end];
\* <<>> when it has not returned within the rounds left
Cubic_bisect(c, t, start, end, rounds) ==
    IF rounds = 0 THEN <<>>
    ELSE LET midpoint == (start + end) \div 2
             estimate == Cubic_eval_cubic(c[2], c[4], midpoint)
         IN  IF Abs(t - estimate) * 1000 < FixedPoint
             THEN << clamp(Cubic_eval_cubic(c[3], c[5], midpoint), 0, FixedPoint) >>
             ELSE IF estimate < t
                  THEN Cubic_bisect(c, t, midpoint, end, rounds - 1)
                  ELSE Cubic_bisect(c, t, start, midpoint, rounds - 1)

\* A curve is <<"Linear">>, <<"Cubic", x1, y1, x2, y2>> or
\* <<"Interval", begin, end, curve>>.
RECURSIVE Curve_transform(_, _)
\* Linear.transform, Interval.transform, Cubic.transform: <<value>>, or <<>>
Curve_transform(c, t) ==
    IF c[1] = "Linear" THEN << t >>
    ELSE IF c[1] = "Interval"
         THEN Curve_transform(c[4], clamp(FxDiv(t - c[2], c[3] - c[2]), 0, FixedPoint))
         ELSE Cubic_bisect(c, t, 0, FixedPoint, MaxBisect)

\* Curve.__call__(t)
Curve_call(c, t) == Curve_transform(c, clamp(t, 0, FixedPoint))

Linear == << "Linear" >>
CubicCurves ==
    { << "Cubic", FxGrid(x1), FxGrid(y1), FxGrid(x2), FxGrid(y2) >> :
        x1 \in -1 .. CurveGrid + 1, y1 \in -2 .. CurveGrid + 2,
        x2 \in -1 .. CurveGrid + 1, y2 \in -2 .. CurveGrid + 2 }
\* the curves an Interval is put over: Linear, an Interval, two cubics of
\* the presets' kind (one overshooting on both sides)
InnerCurves ==
    { Linear,
      << "Interval", FxGrid(1), FxGrid(CurveGrid - 1), Linear >>,
      << "Cubic", FxGrid(1), FxGrid(0), FxGrid(1), FxGrid(CurveGrid) >>,
      << "Cubic", FxGrid(CurveGrid - 1), FxGrid(-2), FxGrid(1), FxGrid(CurveGrid + 2) >> }
IntervalCurves ==
    { << "Interval", FxGrid(b), FxGrid(e), inner >> :
        b \in -1 .. CurveGrid + 1, e \in -1 .. CurveGrid + 1, inner \in InnerCurves }
\* Intervals with begin = end raise at evaluation and are not instantiated
Curves ==
    {Linear} \cup CubicCurves \cup { c \in IntervalCurves : c[2] # c[3] }
\* the inputs: from below 0 to above 1
CurveInputs == { FxGrid(k) : k \in -1 .. CurveGrid + 1 }

CurveIdle ==
    /\ cv_curve = Linear
    /\ cv_call = <<>>

CurveInit ==
    /\ cv_curve \in Curves
    /\ cv_call = <<>>

\* a call c(t)
Curve_apply(t) ==
    /\ cv_call = <<>>
    /\ cv_call' = << [t |-> t, ret |-> Curve_call(cv_curve, t)] >>
    /\ UNCHANGED cv_curve
    /\ UnchangedExcept("curve")

NextCurve == \E t \in CurveInputs : Curve_apply(t)

\* ------------------------------------------------- comparisons with INF
MaxInfX == 2 \* the finite operands are -MaxInfX .. MaxInfX

\* (mutant) __le__ written like __ge__: always true
Infinity_le_Always(other) == TRUE
\* Infinity.__le__(self, other): self is other
Infinity_le(other) == is_inf(other)
\* Infinity.__eq__(self, other): self is other
Infinity_eq(other) == is_inf(other)
\* Infinity.__ge__(self, _): always true
Infinity_ge(other) == TRUE

\* a <= b, a >= b, a == b as Python evaluates them for int | Infinity: the
\* left operand's method; int answers NotImplemented for an Infinity and
\* Python asks the right operand's reflected method (__ge__ for <=, __le__
\* for >=, __eq__ for ==).
PyLe(a, b) ==
    IF is_inf(a) THEN Infinity_le(b)
    ELSE IF is_inf(b) THEN Infinity_ge(a)
    ELSE a <= b
PyGe(a, b) ==
    IF is_inf(a) THEN Infinity_ge(b)
    ELSE IF is_inf(b) THEN Infinity_le(a)
    ELSE a >= b
PyEq(a, b) ==
    IF is_inf(a) THEN Infinity_eq(b)
    ELSE IF is_inf(b) THEN Infinity_eq(a)
    ELSE a = b

InfOperands == (-MaxInfX .. MaxInfX) \cup {INF}
InfOps == {"lt", "le", "eq", "gt", "ge", "min", "max"}

\* the value of the expression a op b (min(a, b), max(a, b))
Inf_eval(op, a, b) ==
    CASE op = "lt"  -> PyLt(a, b)
      [] op = "le"  -> PyLe(a, b)
      [] op = "eq"  -> PyEq(a, b)
      [] op = "gt"  -> PyGt(a, b)
      [] op = "ge"  -> PyGe(a, b)
      [] op = "min" -> PyMin(a, b)
      [] op = "max" -> PyMax(a, b)

InfIdle == inf_call = <<>>

InfInit == inf_call = <<>>

\* one comparison, minimum or maximum is evaluated
Inf_compare(op, a, b) ==
    /\ inf_call' = << [op |-> op, a |-> a, b |-> b, ret |-> Inf_eval(op, a, b)] >>
    /\ UnchangedExcept("inf")

NextInf == \E op \in InfOps, a \in InfOperands, b \in InfOperands : Inf_compare(op, a, b)

\* ------------------------------------------------- a tree of layout nodes
MaxTreeChildren == 2 \* a Stack, Sequential or ListView of the tree has at most MaxTreeChildren children
MaxRuns         == 2 \* consecutive identical calls are counted up to MaxRuns

\* A node of the tree: kind is the class name; p holds the constructor's
\* parameters as integers (see each class below); children are nodes;
\* size_constraints and size are the attributes of LayouterClip (size <<>>
\* while unset); cache is the layout the node derives while sizing
\* (Stack._child_offsets; Grid.final_col_widths and final_row_heights).
Node(kind, p, children) ==
    [size |-> <<>>, children |-> children, kind |-> kind, p |-> p,
     size_constraints |-> Constraints(0, 0, INF, INF), cache |-> <<>>]

RECURSIVE Node_calculate_size(_, _)
RECURSIVE Resolve_children(_, _, _)
RECURSIVE ListView_measure(_, _, _, _, _)

\* child.calculate_size(handed[k]) for the children from the i-th on, in
\* order, up to the first call that raises
Resolve_children(children, handed, i) ==
    IF i > Len(children) THEN [raised |-> FALSE, children |-> children]
    ELSE LET r  == Node_calculate_size(children[i], handed[i])
             cs == [children EXCEPT ![i] = r.node]
         IN  IF r.raised THEN [raised |-> TRUE, children |-> cs]
             ELSE Resolve_children(cs, handed, i + 1)

SizesOf(children) == [k \in 1 .. Len(children) |-> children[k].size]

\* Box(size=(p[1], p[2]), use_max=(p[3] = 1), child=...)
Box_of(node) == [w |-> node.p[1], h |-> node.p[2], use_max |-> node.p[3] = 1]
\* Box.calculate_size, lines 23-31: the constraints merged with self._size
Box_merged(b, constraints) ==
    merge_constraints(constraints,
        Constraints(IF b.w # 0 THEN b.w ELSE constraints.min_width,
                    IF b.h # 0 THEN b.h ELSE constraints.min_height,
                    IF b.w # 0 THEN b.w ELSE constraints.max_width,
                    IF b.h # 0 THEN b.h ELSE constraints.max_height))
\* Box.calculate_size with self._size set
Box_resolve(node, constraints) ==
    IF node.children = <<>>
    THEN [raised |-> FALSE,
          node |-> [node EXCEPT !.size = Box_calculate_size(Box_of(node), constraints)]]
    ELSE LET r == Resolve_children(node.children,
                                   << Box_merged(Box_of(node), constraints) >>, 1)
         IN  [raised |-> r.raised,
              node |-> [node EXCEPT !.children = r.children,
                                    !.size = IF r.raised THEN @ ELSE r.children[1].size]]

\* Padding.calculate_size; p is <<top, left, bottom, right>>
Padding_child_constraints(p, constraints) ==
    Constraints(
        PyMax(0, constraints.min_width - (p[2] + p[4])),
        PyMax(0, constraints.min_height - (p[1] + p[3])),
        IF is_finite(constraints.max_width)
        THEN PyMax(0, constraints.max_width - (p[2] + p[4])) ELSE INF,
        IF is_finite(constraints.max_height)
        THEN PyMax(0, constraints.max_height - (p[1] + p[3])) ELSE INF)
Padding_resolve(node, constraints) ==
    LET r == Resolve_children(node.children,
                              << Padding_child_constraints(node.p, constraints) >>, 1)
    IN  [raised |-> r.raised,
         node |-> [node EXCEPT
                     !.children = r.children,
                     !.size = IF r.raised THEN @
                              ELSE << r.children[1].size[1] + node.p[2] + node.p[4],
                                      r.children[1].size[2] + node.p[1] + node.p[3] >>]]

\* Aligned.calculate_size; the child is optional
Aligned_resolve(node, constraints) ==
    LET r == Resolve_children(node.children,
                 [k \in 1 .. Len(node.children) |->
                     Constraints(0, 0, constraints.max_width, constraints.max_height)], 1)
    IN  [raised |-> r.raised,
         node |-> [node EXCEPT
                     !.children = r.children,
                     !.size = IF r.raised THEN @
                              ELSE << IF is_finite(constraints.max_width)
                                      THEN constraints.max_width
                                      ELSE IF r.children # <<>> THEN r.children[1].size[1]
                                      ELSE constraints.min_width,
                                      IF is_finite(constraints.max_height)
                                      THEN constraints.max_height
                                      ELSE IF r.children # <<>> THEN r.children[1].size[2]
                                      ELSE constraints.min_height >>]]

\* Offseted.calculate_size
Offseted_resolve(node, constraints) ==
    LET r == Resolve_children(node.children, << constraints >>, 1)
    IN  [raised |-> r.raised,
         node |-> [node EXCEPT !.children = r.children,
                               !.size = IF r.raised THEN @ ELSE r.children[1].size]]

\* (mutant) the offsets of this pass are appended to those of the last
Stack_new_offsets_Appended(old, computed) == old \o computed
\* Stack.calculate_size, lines 396-399: self._child_offsets is emptied, then
\* gets one offset per child size
Stack_new_offsets(old, computed) == computed
\* Stack.calculate_size; p is <<alignment>>
Stack_resolve(node, constraints) ==
    LET r  == Resolve_children(node.children,
                  [k \in 1 .. Len(node.children) |-> Stack_child_constraints(constraints)], 1)
        child_sizes == SizesOf(r.children)
        sz == Stack_size(child_sizes, constraints)
    IN  IF r.raised THEN [raised |-> TRUE, node |-> [node EXCEPT !.children = r.children]]
        ELSE [raised |-> FALSE,
              node |-> [node EXCEPT
                          !.children = r.children,
                          !.size = sz,
                          !.cache = Stack_new_offsets(@,
                              [k \in 1 .. Len(child_sizes) |->
                                  Stack_get_offset(node.p[1], sz[1], sz[2],
                                      child_sizes[k][1], child_sizes[k][2])])]]

\* Sequential.calculate_size, with at least one child
Sequential_resolve(node, constraints) ==
    LET r == Resolve_children(node.children,
                 [k \in 1 .. Len(node.children) |-> constraints], 1)
        sizes == SizesOf(r.children)
    IN  [raised |-> r.raised,
         node |-> [node EXCEPT
                     !.children = r.children,
                     !.size = IF r.raised THEN @
                              ELSE << PyMaxList([k \in 1 .. Len(sizes) |-> sizes[k][1]]),
                                      PyMaxList([k \in 1 .. Len(sizes) |-> sizes[k][2]]) >>]]

\* Grid(grid_children, grid_size): p is <<rows, cols, v, pc, g, rv, rpc, rg>>,
\* every column a GridCellSize(v, pc = 1, g), every row a
\* GridCellSize(rv, rpc = 1, rg); children are the clips row by row
Grid_column(node) == GridCellSize(node.p[3], node.p[4] = 1, node.p[5])
Grid_row(node)    == GridCellSize(node.p[6], node.p[7] = 1, node.p[8])
\* Grid.calculate_size
Grid_resolve(node, constraints) ==
    LET r  == Resolve_children(node.children,
                  [k \in 1 .. Len(node.children) |->
                      Grid_child_constraints(Grid_row(node), Grid_column(node), constraints)], 1)
        sz == Grid_final_size(constraints)
    IN  IF r.raised THEN [raised |-> TRUE, node |-> [node EXCEPT !.children = r.children]]
        ELSE [raised |-> FALSE,
              node |-> [node EXCEPT
                          !.children = r.children,
                          !.size = sz,
                          !.cache = << [c \in 1 .. node.p[2] |->
                                           Grid_final_cell(Grid_column(node), sz[1])],
                                       [rr \in 1 .. node.p[1] |->
                                           Grid_final_cell(Grid_row(node), sz[2])] >>]]

\* ListView.calculate_size, lines 46-56: the loop over the children from the
\* i-th on; p is <<axis, gap>>.  A Flex child is only collected.
ListView_measure(children, axis, gap, i, st) ==
    IF i > Len(children) THEN st
    ELSE IF children[i].kind = "Flex"
    THEN ListView_measure(children, axis, gap, i + 1,
                          [st EXCEPT !.flex_children = Append(@, i)])
    ELSE
        LET con   == st.con
            r     == Node_calculate_size(children[i], con)
            cs    == r.node.size
            main  == st.main_axis_size + cs[axis + 1]
            cross == PyMin(IF axis = Vertical THEN con.max_width ELSE con.max_height,
                           PyMax(st.cross_axis_size, cs[((axis + 1) % 2) + 1]))
            con2  == IF axis = Vertical
                     THEN [con EXCEPT !.min_height =
                              PyMin(con.max_height, con.min_height + main + gap)]
                     ELSE [con EXCEPT !.min_width =
                              PyMin(con.max_width, con.min_width + main + gap)]
        IN  IF r.raised
            THEN [st EXCEPT !.raised = TRUE, !.children[i] = r.node]
            ELSE ListView_measure(children, axis, gap, i + 1,
                     [st EXCEPT !.con = con2,
                                !.main_axis_size = main,
                                !.cross_axis_size = cross,
                                !.children[i] = r.node])
\* ListView.calculate_size: a raise leaves self.size as it was.  The Flex
\* children are handed their share by lines 72-77; what Flex does with it is
\* ProxyLayouterClip's code, and the Flex nodes are left as they are.
ListView_resolve(node, constraints) ==
    LET st  == ListView_measure(node.children, node.p[1], node.p[2], 1,
                   [con |-> Constraints(0, 0, constraints.max_width, constraints.max_height),
                    main_axis_size |-> 0, cross_axis_size |-> 0,
                    flex_children |-> <<>>, measured |-> <<>>,
                    raised |-> FALSE, children |-> node.children])
        fin == LV_finish(st, node.p[1], constraints)
    IN  IF st.raised \/ fin.raised
        THEN [raised |-> TRUE, node |-> [node EXCEPT !.children = st.children]]
        ELSE [raised |-> FALSE,
              node |-> [node EXCEPT !.children = st.children, !.size = fin.ret]]

\* node.calculate_size(constraints): whether it raised, and the node after it
Node_calculate_size(node, constraints) ==
    CASE node.kind = "Box"        -> Box_resolve(node, constraints)
      [] node.kind = "Padding"    -> Padding_resolve(node, constraints)
      [] node.kind = "Aligned"    -> Aligned_resolve(node, constraints)
      [] node.kind = "Offseted"   -> Offseted_resolve(node, constraints)
      [] node.kind = "Stack"      -> Stack_resolve(node, constraints)
      [] node.kind = "Sequential" -> Sequential_resolve(node, constraints)
      [] node.kind = "Grid"       -> Grid_resolve(node, constraints)
      [] node.kind = "ListView"   -> ListView_resolve(node, constraints)

RECURSIVE HasKind(_, _)
\* the node or one of its descendants is of the kind
HasKind(node, kind) ==
    \/ node.kind = kind
    \/ \E k \in 1 .. Len(node.children) : HasKind(node.children[k], kind)

RECURSIVE Node_setup_layout(_, _)
\* node.setup_layout(); parent is <<>> (None) or <<parent.size_constraints>>.
\* LayouterClip.setup_layout merges; the single- and multi-child classes go
\* on to their children; Grid inherits LayouterClip's and stops.
Node_setup_layout(node, parent) ==
    LET sc == IF parent # <<>>
              THEN merge_constraints(parent[1], node.size_constraints)
              ELSE node.size_constraints
    IN  IF node.kind = "Grid"
        THEN [node EXCEPT !.size_constraints = sc]
        ELSE [node EXCEPT !.size_constraints = sc,
                          !.children = [k \in 1 .. Len(node.children) |->
                                           Node_setup_layout(node.children[k], << sc >>)]]

RECURSIVE WithConstraints(_, _, _)
\* the tree with size_constraints set (as a user of the library may) to
\* own on the node and to below on every descendant
WithConstraints(node, own, below) ==
    [node EXCEPT !.size_constraints = own,
                 !.children = [k \in 1 .. Len(node.children) |->
                                  WithConstraints(node.children[k], below, below)]]

\* the trees: leaves, every class over leaves, and some classes over those
TreeLeaves == { Node("Box", <<1, 2, 0>>, <<>>), Node("Box", <<2, 1, 1>>, <<>>) }
TreeLists(S, lo) == UNION { [1 .. n -> S] : n \in lo .. MaxTreeChildren }
SingleOver(S) ==
    { Node(kp[1], kp[2], << c >>) :
        kp \in { <<"Box", <<2, 2, 0>> >>, <<"Padding", <<1, 0, 0, 1>> >>,
                 <<"Aligned", <<4>> >>, <<"Offseted", <<0>> >> },
        c \in S }
MultiOver(S) ==
    { Node("Stack", << a >>, cs) : a \in {0, 8}, cs \in TreeLists(S, 0) }
    \cup { Node("Sequential", <<0>>, cs) : cs \in TreeLists(S, 1) }
    \cup { Node("ListView", << axis, gap >>, cs) :
             axis \in {Vertical, Horizontal}, gap \in {0, 1},
             cs \in TreeLists(S \cup { Node("Flex", <<1>>, << c >>) : c \in S }, 0) }
    \cup { Node("Grid", << 1, Len(cs) >> \o cell \o <<1, 0, 0>>, cs) :
             cell \in { <<50, 1, 0>>, <<1, 0, 2>> }, cs \in TreeLists(S, 1) }
TreesOverLeaves ==
    { Node("Aligned", <<4>>, <<>>) } \cup SingleOver(TreeLeaves) \cup MultiOver(TreeLeaves)
TreesOverTrees ==
    SingleOver(TreesOverLeaves)
    \cup { Node("Stack", <<8>>, << n, l >>) : n \in SingleOver(TreeLeaves), l \in TreeLeaves }
TreeConstraints ==
    { Constraints(0, 0, INF, INF), Constraints(1, 0, 2, INF) }
Trees ==
    { WithConstraints(n, own, below) :
        n \in TreesOverLeaves \cup TreesOverTrees,
        own \in TreeConstraints, below \in TreeConstraints }
\* the constraints the root is resolved against
ResolveConstraints ==
    { Constraints(mn[1], mn[2], mx[1], mx[2]) :
        mn \in { <<0, 0>>, <<1, 2>> },
        mx \in { <<3, 3>>, <<INF, 3>>, <<INF, INF>> } }

TreeIdle ==
    /\ rt_tree = <<>>
    /\ rt_call = <<>>
    /\ rt_runs = 0

TreeInit ==
    /\ rt_tree \in Trees
    /\ rt_call = <<>>
    /\ rt_runs = 0

\* how many times in a row the call has now been made
Runs(call) ==
    IF rt_call = << call >> /\ rt_runs < MaxRuns THEN rt_runs + 1
    ELSE IF rt_call = << call >> THEN rt_runs
    ELSE 1

\* root.calculate_size(constraints)
Tree_calculate_size(constraints) ==
    \E r \in { Node_calculate_size(rt_tree, constraints) } :
    \E call \in { [constraints |-> constraints, raised |-> r.raised,
                   op |-> "calculate_size"] } :
        /\ rt_tree' = r.node
        /\ rt_call' = << call >>
        /\ rt_runs' = Runs(call)
        /\ UnchangedExcept("tree")

\* root.setup_layout(), the root having no parent; defined for the trees
\* without a Flex (ProxyLayouterClip is not part of base.py)
Tree_setup_layout ==
    /\ ~ HasKind(rt_tree, "Flex")
    /\ \E call \in { [constraints |-> rt_tree.size_constraints, raised |-> FALSE,
                      op |-> "setup_layout"] } :
          /\ rt_tree' = Node_setup_layout(rt_tree, <<>>)
          /\ rt_call' = << call >>
          /\ rt_runs' = Runs(call)
    /\ UnchangedExcept("tree")

NextTree ==
    \/ \E c \in ResolveConstraints : Tree_calculate_size(c)
    \/ Tree_setup_layout

\* ------------------------------------------------------ Grid.frame_function
MaxGridFrameDim == 2 \* the rendered grid has 1 .. MaxGridFrameDim rows and columns

RECURSIVE Grid_offset(_, _)
\* x_offset (y_offset) on reaching cell n: the widths (heights) of the cells before it
Grid_offset(dims, n) == IF n <= 1 THEN 0 ELSE Grid_offset(dims, n - 1) + dims[n - 1]

\* Grid.frame_function, lines 243-269, for one cell: the rectangle
\* frame[y_start:y_end, x_start:x_end] after the clamps, the shape of the
\* child's frame assigned to it, and whether numpy refuses the assignment
Grid_paint_cell(sz, x_offset, y_offset, col_width, row_height, child_size) ==
    LET child_w == child_size[1]
        child_h == child_size[2]
        x0      == x_offset + (col_width - child_w) \div 2
        y0      == y_offset + (row_height - child_h) \div 2
        x_start == IF x0 < 0 THEN 0 ELSE x0
        y_start == IF y0 < 0 THEN 0 ELSE y0
        x_end   == IF x0 + child_w > sz[1] THEN sz[1] ELSE x0 + child_w
        y_end   == IF y0 + child_h > sz[2] THEN sz[2] ELSE y0 + child_h
        rrows   == PySlice(y_start, y_end, sz[2])
        rcols   == PySlice(x_start, x_end, sz[1])
    IN  [rows |-> rrows, cols |-> rcols,
         raised |-> ~ (/\ Paste_broadcasts(child_h, Cardinality(rrows))
                       /\ Paste_broadcasts(child_w, Cardinality(rcols))),
         child_w |-> child_w, child_h |-> child_h]

\* Grid.frame_function on a sized grid node: the cells in the order the
\* loops reach them (children are kept row by row, p[2] to a row)
Grid_frame_function(node) ==
    [k \in 1 .. Len(node.children) |->
        Grid_paint_cell(node.size,
                        Grid_offset(node.cache[1], ((k - 1) % node.p[2]) + 1),
                        Grid_offset(node.cache[2], ((k - 1) \div node.p[2]) + 1),
                        node.cache[1][((k - 1) % node.p[2]) + 1],
                        node.cache[2][((k - 1) \div node.p[2]) + 1],
                        node.children[k].size)]

\* the grids rendered: leaf boxes under fixed or percentage cells
GridFrameLeaves ==
    { Node("Box", <<1, 1, 0>>, <<>>), Node("Box", <<3, 1, 0>>, <<>>),
      Node("Box", <<1, 2, 0>>, <<>>) }
GridFrameNodes ==
    { Node("Grid", << r, c >> \o col \o row, cs) :
        r \in 1 .. MaxGridFrameDim, c \in 1 .. MaxGridFrameDim,
        col \in { <<1, 0, 0>>, <<2, 0, 0>>, <<50, 1, 0>> },
        row \in { <<1, 0, 0>>, <<2, 0, 0>> },
        cs \in UNION { [1 .. n -> GridFrameLeaves] : n \in 1 .. MaxGridFrameDim * MaxGridFrameDim } }
GridFrameGrids == { n \in GridFrameNodes : Len(n.children) = n.p[1] * n.p[2] }
GridFrameConstraints ==
    { Constraints(w, h, w, h) : w \in {1, 2, 4}, h \in {1, 2, 4} }

GridFrameIdle ==
    /\ gfr_node = <<>>
    /\ gfr_call = <<>>

\* Grid.__init__ of a well-shaped grid
GridFrameInit ==
    /\ gfr_node \in GridFrameGrids
    /\ gfr_call = <<>>

\* the sizing pass: Grid.calculate_size(constraints)
GridFrame_calculate_size(constraints) ==
    /\ gfr_node.size = <<>>
    /\ gfr_node' = Grid_resolve(gfr_node, constraints).node
    /\ UNCHANGED gfr_call
    /\ UnchangedExcept("gridframe")

\* Grid.frame_function(t) after the sizing pass; every child draws a frame
\* of its own size (ColoredBox.frame_function)
GridFrame_frame_function ==
    /\ gfr_node.size # <<>>
    /\ gfr_call = <<>>
    /\ \E cells \in { Grid_frame_function(gfr_node) } :
          gfr_call' = << [raised |-> \E k \in 1 .. Len(cells) : cells[k].raised,
                          cells |-> cells] >>
    /\ UNCHANGED gfr_node
    /\ UnchangedExcept("gridframe")

NextGridFrame ==
    \/ \E c \in GridFrameConstraints : GridFrame_calculate_size(c)
    \/ GridFrame_frame_function

\* ----------------------------------------------------- Stack.frame_function
MaxPaintChildren == 2 \* the rendered stack has 0 .. MaxPaintChildren children
MaxPaintDim      == 2 \* each 1 .. MaxPaintDim pixels wide and high

\* A child of the rendered stack: a ColoredBox(color, size=(w, h)) whose
\* frame is h rows of w pixels <<rgb, alpha>>, all of its colour.
PaintChild(w, h, rgb, alpha) ==
    [w |-> w, h |-> h, use_max |-> FALSE, rgb |-> rgb, alpha |-> alpha]
\* ColoredBox.frame_function: np.full((size[1], size[0], 4), color)
ColoredBox_frame(child, sz) ==
    [r \in 1 .. sz[2] |-> [c \in 1 .. sz[1] |-> << child.rgb, child.alpha >>]]

\* LayouterClip.frame_function as pixels: np.zeros((*self.size, 4)) has
\* size[0] rows and size[1] columns
LayouterClip_canvas(sz) == [r \in 1 .. sz[1] |-> [c \in 1 .. sz[2] |-> <<0, 0>>]]

\* Stack.frame_function, lines 437-482: one child blended onto the canvas at
\* its offset; width and height are self.size
Stack_blend_child(canvas, child_frame, offset, width, height) ==
    LET child_h == Rows(child_frame)
        child_w == Cols(child_frame)
        x       == offset[1]
        y       == offset[2]
        y_end   == IF y + child_h < height THEN y + child_h ELSE height
        x_end   == IF x + child_w < width THEN x + child_w ELSE width
        draw_h  == PyPrefixLen(y_end - y, child_h)
        draw_w  == PyPrefixLen(x_end - x, child_w)
        rrows   == PySlice(y, y_end, Rows(canvas))
        rcols   == PySlice(x, x_end, Cols(canvas))
        ok      == /\ Paste_broadcasts(draw_h, Cardinality(rrows))
                   /\ Paste_broadcasts(draw_w, Cardinality(rcols))
        r0      == IF rrows = {} THEN 0 ELSE CHOOSE i \in rrows : \A j \in rrows : i <= j
        c0      == IF rcols = {} THEN 0 ELSE CHOOSE i \in rcols : \A j \in rcols : i <= j
        src(r, c) == child_frame[IF draw_h = 1 THEN 1 ELSE r - r0 + 1]
                                [IF draw_w = 1 THEN 1 ELSE c - c0 + 1]
    IN  IF ~ ok THEN [raised |-> TRUE, canvas |-> canvas]
        ELSE [raised |-> FALSE,
              canvas |-> [r \in 1 .. Rows(canvas) |-> [c \in 1 .. Cols(canvas) |->
                  IF (r - 1) \in rrows /\ (c - 1) \in rcols
                  THEN << Paste_blend(canvas[r][c][1], src(r - 1, c - 1)[1], src(r - 1, c - 1)[2]),
                          Paste_alpha(canvas[r][c][2], src(r - 1, c - 1)[2]) >>
                  ELSE canvas[r][c]]]]

RECURSIVE Stack_blend_from(_, _, _, _, _)
\* the loop of line 436 from child i on; it stops where numpy raises
Stack_blend_from(canvas, children, sizes, offsets, i) ==
    IF i > Len(children) THEN [raised |-> FALSE, canvas |-> canvas]
    ELSE LET res == Stack_blend_child(canvas, ColoredBox_frame(children[i], sizes[i]),
                                      offsets[i], sf_size[1], sf_size[2])
         IN  IF res.raised THEN res
             ELSE Stack_blend_from(res.canvas, children, sizes, offsets, i + 1)

\* Stack.frame_function(t)
Stack_frame_function(children, sizes, offsets) ==
    IF children = <<>>
    THEN [raised |-> FALSE, canvas |-> LayouterClip_canvas(sf_size)]
    ELSE Stack_blend_from(LayouterClip_canvas(sf_size), children, sizes, offsets, 1)

PaintChildKinds ==
    { PaintChild(w, h, rgb, a) : w \in 1 .. MaxPaintDim, h \in 1 .. MaxPaintDim,
                                 rgb \in {1, 2}, a \in {0, 255} }
PaintChildLists == UNION { [1 .. n -> PaintChildKinds] : n \in 0 .. MaxPaintChildren }
PaintConstraints == { Constraints(0, 0, INF, INF), Constraints(1, 2, 2, 2) }

StackFrameIdle ==
    /\ sf_children = <<>>
    /\ sf_alignment = 0
    /\ sf_size = <<>>
    /\ sf_child_sizes = <<>>
    /\ sf_child_offsets = <<>>
    /\ sf_call = <<>>

\* Stack.__init__
StackFrameInit ==
    /\ sf_children \in PaintChildLists
    /\ sf_alignment \in {0, 4, 8}
    /\ sf_size = <<>>
    /\ sf_child_sizes = <<>>
    /\ sf_child_offsets = <<>>
    /\ sf_call = <<>>

\* the sizing pass: Stack.calculate_size(constraints)
StackFrame_calculate_size(constraints) ==
    /\ sf_size = <<>>
    /\ \E child_sizes \in { [k \in 1 .. Len(sf_children) |->
                               Box_calculate_size(sf_children[k],
                                   Stack_child_constraints(constraints))] } :
       \E sz \in { Stack_size(child_sizes, constraints) } :
          /\ sf_size' = sz
          /\ sf_child_sizes' = child_sizes
          /\ sf_child_offsets' =
                 [k \in 1 .. Len(child_sizes) |->
                     Stack_get_offset(sf_alignment, sz[1], sz[2],
                                      child_sizes[k][1], child_sizes[k][2])]
    /\ UNCHANGED <<sf_children, sf_alignment, sf_call>>
    /\ UnchangedExcept("stackframe")

\* Stack.frame_function(t) after the sizing pass
StackFrame_frame_function ==
    /\ sf_size # <<>>
    /\ sf_call = <<>>
    /\ sf_call' = << Stack_frame_function(sf_children, sf_child_sizes, sf_child_offsets) >>
    /\ UNCHANGED <<sf_children, sf_alignment, sf_size, sf_child_sizes, sf_child_offsets>>
    /\ UnchangedExcept("stackframe")

NextStackFrame ==
    \/ \E c \in PaintConstraints : StackFrame_calculate_size(c)
    \/ StackFrame_frame_function

\* ------------------------------------------------------ Sequential.__init__
MaxNewChildren == 2 \* Sequential(children, ...) is built from 1 .. MaxNewChildren children
MaxNewDur      == 2 \* whose durations are None or 1 .. MaxNewDur
MaxNewT        == 5 \* get_frame is called with t in 0 .. MaxNewT

\* the children handed to the constructor: boxes with a duration or None
NewChild(d) == [duration |-> d, w |-> 1, h |-> 2]
NewChildLists ==
    UNION { [1 .. n -> { NewChild(d) : d \in {<<>>} \cup { <<x>> : x \in 1 .. MaxNewDur } }] :
              n \in 1 .. MaxNewChildren }
\* the duration argument: None or a number
NewDurations == {<<>>} \cup { <<d>> : d \in 1 .. MaxNewDur * MaxNewChildren + 1 }

\* Sequential.__init__, line 287: the assert fails
Sequential_init_raises(children) ==
    \E k \in 1 .. Len(children) : children[k].duration = <<>>
\* Sequential.__init__, lines 288-290: self.duration
Sequential_init_duration(children, d) ==
    IF d = <<>>
    THEN << SeqSum([k \in 1 .. Len(children) |->
                       [duration |-> children[k].duration[1]]], Len(children)) >>
    ELSE d

\* Sequential.frame_function(t): the frame and the children afterwards
Seq_frame_function(children, alignment, sz, t) ==
    LET sel == Seq_select_from_start(children, t) IN
    IF sel.active = 0
    THEN [ret |-> EmptyFrame(sz), children |-> children]
    ELSE LET got == Seq_child_get_frame(children[sel.active], sel.t_prime)
             off == Seq_offset(alignment, sz[1], sz[2], got.ret.cols, got.ret.rows)
         IN  [ret |-> [rows |-> sz[2], cols |-> sz[1],
                       content |-> << [dx |-> off[1], dy |-> off[2], frame |-> got.ret] >>],
              children |-> [children EXCEPT ![sel.active] = got.child]]

SeqNewIdle ==
    /\ sn_args = <<>>
    /\ sn_status = "none"
    /\ sn_children = <<>>
    /\ sn_duration = <<>>
    /\ sn_size = <<>>
    /\ sn_memoized_t = <<>>
    /\ sn_memoized_frame = <<>>
    /\ sn_call = <<>>

SeqNewInit == SeqNewIdle

\* Sequential(children, alignment, duration): the one construction
Sequential_init(children, d) ==
    /\ sn_status = "none"
    /\ sn_args' = << [duration |-> d, children |-> children] >>
    /\ IF Sequential_init_raises(children)
       THEN /\ sn_status' = "error"
            /\ UNCHANGED <<sn_children, sn_duration>>
       ELSE /\ sn_status' = "ok"
            /\ sn_children' = [k \in 1 .. Len(children) |->
                                  SeqChild(children[k].w, children[k].h,
                                           children[k].duration[1])]
            /\ sn_duration' = Sequential_init_duration(children, d)
    /\ UNCHANGED <<sn_size, sn_memoized_t, sn_memoized_frame, sn_call>>
    /\ UnchangedExcept("seqnew")

\* the sizing pass: Sequential.calculate_size(Constraints())
SeqNew_calculate_size ==
    /\ sn_status = "ok"
    /\ sn_size = <<>>
    /\ \E sizes \in { [k \in 1 .. Len(sn_children) |->
                         Box_calculate_size(sn_children[k], Constraints(0, 0, INF, INF))] } :
          /\ sn_children' = [k \in 1 .. Len(sn_children) |->
                                [sn_children[k] EXCEPT !.size = sizes[k]]]
          /\ sn_size' = << PyMaxList([k \in 1 .. Len(sizes) |-> sizes[k][1]]),
                           PyMaxList([k \in 1 .. Len(sizes) |-> sizes[k][2]]) >>
    /\ UNCHANGED <<sn_args, sn_status, sn_duration, sn_memoized_t, sn_memoized_frame, sn_call>>
    /\ UnchangedExcept("seqnew")

\* LayouterClip.get_frame(t) on the Sequential
SeqNew_get_frame(t) ==
    /\ sn_size # <<>>
    /\ IF MemoHit(sn_memoized_t, sn_memoized_frame, t)
       THEN /\ sn_call' = << [t |-> t, ret |-> sn_memoized_frame[1]] >>
            /\ UNCHANGED <<sn_memoized_t, sn_memoized_frame, sn_children>>
       ELSE /\ sn_memoized_t' = <<t>>
            /\ IF OutOfBounds(sn_duration, t)
               THEN /\ sn_call' = << [t |-> t, ret |-> LayouterClip_frame_function(sn_size)] >>
                    /\ UNCHANGED <<sn_memoized_frame, sn_children>>
               ELSE \E f \in { Seq_frame_function(sn_children, 0, sn_size, t) } :
                    /\ sn_memoized_frame' = << f.ret >>
                    /\ sn_children' = f.children
                    /\ sn_call' = << [t |-> t, ret |-> f.ret] >>
    /\ UNCHANGED <<sn_args, sn_status, sn_duration, sn_size>>
    /\ UnchangedExcept("seqnew")

NextSeqNew ==
    \/ \E children \in NewChildLists, d \in NewDurations : Sequential_init(children, d)
    \/ SeqNew_calculate_size
    \/ \E t \in 0 .. MaxNewT : SeqNew_get_frame(t)

\* ------------------------------------------------------- Interval.transform
\* (mutant) an Interval that answers inner(0) when end = begin
Interval_transform_Guarded(c, t) ==
    [raised |-> FALSE,
     ret    |-> IF c[3] = c[2] THEN Curve_transform(c[4], 0) ELSE Curve_transform(c, t)]
\* Interval.transform(t), line 43: the quotient is evaluated first and
\* raises ZeroDivisionError when end - begin is 0; otherwise the inner
\* curve's value at the clamped quotient
Interval_transform(c, t) ==
    IF c[3] - c[2] = 0
    THEN [raised |-> TRUE, ret |-> <<>>]
    ELSE [raised |-> FALSE, ret |-> Curve_transform(c, t)]

IntervalIdle ==
    /\ iv_curve = Linear
    /\ iv_call = <<>>

\* Interval(begin, end, curve): every begin and end of the grid, equal ones
\* included
IntervalInit ==
    /\ iv_curve \in IntervalCurves
    /\ iv_call = <<>>

\* a call c.transform(t)
Interval_apply(t) ==
    /\ iv_call = <<>>
    /\ \E r \in { Interval_transform(iv_curve, t) } :
          iv_call' = << [t |-> t, raised |-> r.raised, ret |-> r.ret] >>
    /\ UNCHANGED iv_curve
    /\ UnchangedExcept("interval")

NextInterval == \E t \in CurveInputs : Interval_apply(t)

\* ------------------------------------------- AnimatedClip and AnimatedSlide
MaxAnimDur == 2 \* animations last 1 .. MaxAnimDur and are asked for t in 0 .. MaxAnimDur + 1

\* Offseted.__init__(self, *, child, offset, duration=None): every
\* parameter is keyword-only, a call with positional arguments raises
\* TypeError
Offseted_init_accepts(positional) == positional = 0

\* the offsets a slide goes between: dx and dy in {-1/2, 0, 1/2}
SlideOffsets ==
    { [dx |-> FxGrid(2) * a, dy |-> FxGrid(2) * b] : a \in -1 .. 1, b \in -1 .. 1 }
AnimCurves == { Linear, << "Interval", FxGrid(1), FxGrid(CurveGrid - 1), Linear >> }

\* AnimatedClip.frame_function, line 23: the progress handed to
\* frame_anim_function; <<>> when the curve does not return
AnimatedClip_progress(curve, dur, t) ==
    LET v == Curve_call(curve, FxDiv(t * FixedPoint, dur * FixedPoint))
    IN  IF v = <<>> THEN <<>> ELSE << clamp(v[1], 0, FixedPoint) >>

\* AnimatedSlide.frame_anim_function, lines 37-38: slider.offset after it
AnimatedSlide_offset(a, at) ==
    [dx |-> IF at < FixedPoint THEN a.start.dx + FxMul(a.end.dx - a.start.dx, at)
            ELSE a.end.dx,
     dy |-> IF at < FixedPoint THEN a.start.dy + FxMul(a.end.dy - a.start.dy, at)
            ELSE a.end.dy]

AnimIdle ==
    /\ an_status = "none"
    /\ an_args = <<>>
    /\ an_offset = <<>>
    /\ an_call = <<>>

AnimInit == AnimIdle

\* AnimatedClip(duration, curve)
AnimatedClip_init(dur, curve) ==
    /\ an_status = "none"
    /\ an_status' = "ok"
    /\ an_args' = << [kind |-> "AnimatedClip", duration |-> dur, curve |-> curve] >>
    /\ UNCHANGED <<an_offset, an_call>>
    /\ UnchangedExcept("anim")

\* AnimatedSlide(child, start, end, duration, curve): line 29 builds the
\* Offseted with four positional arguments
AnimatedSlide_init(start, end, dur, curve) ==
    /\ an_status = "none"
    /\ an_args' = << [duration |-> dur, start |-> start, end |-> end,
                      kind |-> "AnimatedSlide", curve |-> curve] >>
    /\ IF Offseted_init_accepts(4)
       THEN /\ an_status' = "ok"
            /\ an_offset' = << start >>
       ELSE /\ an_status' = "error"
            /\ UNCHANGED an_offset
    /\ UNCHANGED an_call
    /\ UnchangedExcept("anim")

\* AnimatedClip.frame_function(t) on the constructed clip
AnimatedClip_frame_function(t) ==
    /\ an_status = "ok"
    /\ \E at \in { AnimatedClip_progress(an_args[1].curve, an_args[1].duration, t) } :
          /\ an_call' = << [t |-> t, at |-> at] >>
          /\ an_offset' = IF an_args[1].kind = "AnimatedSlide" /\ at # <<>>
                          THEN << AnimatedSlide_offset(an_args[1], at[1]) >>
                          ELSE an_offset
    /\ UNCHANGED <<an_status, an_args>>
    /\ UnchangedExcept("anim")

NextAnim ==
    \/ \E d \in 1 .. MaxAnimDur, c \in AnimCurves : AnimatedClip_init(d, c)
    \/ \E s \in SlideOffsets, e \in SlideOffsets, d \in 1 .. MaxAnimDur, c \in AnimCurves :
          AnimatedSlide_init(s, e, d, c)
    \/ \E t \in 0 .. MaxAnimDur + 1 : AnimatedClip_frame_function(t)

\* --------------------------------------------------- Padding.calculate_size
MaxInset  == 2 \* each of top, left, bottom, right is 0 .. MaxInset
MaxPadDim == 2 \* the child box and the constraints' bounds are 0 .. MaxPadDim or INF

\* EdgeInsets as <<top, left, bottom, right>>
PadInsets ==
    { << t, l, b, r >> : t \in 0 .. MaxInset, l \in 0 .. MaxInset,
                         b \in {0}, r \in 0 .. MaxInset }
\* the child: a Box with a size, or with no size taking the minimum or the
\* maximum handed down
PadChildren ==
    { [w |-> w, h |-> h, use_max |-> u] :
        w \in 0 .. MaxPadDim, h \in {0, MaxPadDim}, u \in BOOLEAN }
\* the incoming constraints, min <= max
PadConstraints ==
    { Constraints(mn[1], mn[2], mx[1], mx[2]) :
        mn \in (0 .. MaxPadDim) \X {0, 1},
        mx \in ((1 .. MaxPadDim) \cup {INF}) \X {MaxPadDim, INF} }

PaddingIdle ==
    /\ pd_padding = <<>>
    /\ pd_child = <<>>
    /\ pd_call = <<>>

\* Padding(child=Box(...), padding=EdgeInsets(...))
PaddingInit ==
    /\ pd_padding \in PadInsets
    /\ pd_child \in PadChildren
    /\ pd_call = <<>>

\* Padding.calculate_size(constraints)
Padding_calculate_size(constraints) ==
    /\ pd_call = <<>>
    /\ WellFormed(constraints)
    /\ \E cc \in { Padding_child_constraints(pd_padding, constraints) } :
       \E cs \in { Box_calculate_size(pd_child, cc) } :
          pd_call' = << [ size |-> << cs[1] + pd_padding[2] + pd_padding[4],
                                      cs[2] + pd_padding[1] + pd_padding[3] >>,
                          constraints       |-> constraints,
                          child_constraints |-> cc,
                          child_size        |-> cs ] >>
    /\ UNCHANGED <<pd_padding, pd_child>>
    /\ UnchangedExcept("padding")

NextPadding == \E c \in PadConstraints : Padding_calculate_size(c)

\* ------------------------------------------------- parents and children
MaxNodes == 3 \* the nodes constructed are 1 .. MaxNodes
MaxHeld  == 2 \* a MultiChild node or a Grid row is given 1 .. MaxHeld children

\* the nodes constructed so far; 0 stands for None
OwnNodes == { n \in 1 .. MaxNodes : ow_kind[n] # "none" }
\* the node the next constructor call creates
OwnNext == Cardinality(OwnNodes) + 1
OwnLists(S) == UNION { [1 .. n -> S] : n \in 1 .. MaxHeld }

\* "c.parent = self" for every node of held that is not None
Own_set_parents(parent, held, p) ==
    [n \in 1 .. MaxNodes |->
        IF \E k \in 1 .. Len(held) : held[k] = n THEN p ELSE parent[n]]

OwnIdle ==
    /\ ow_kind = <<>>
    /\ ow_parent = <<>>
    /\ ow_held = <<>>

\* no node constructed yet
OwnInit ==
    /\ ow_kind = [n \in 1 .. MaxNodes |-> "none"]
    /\ ow_parent = [n \in 1 .. MaxNodes |-> 0]
    /\ ow_held = [n \in 1 .. MaxNodes |-> <<>>]

\* SingleChildLayouterClip.__init__(child): self.parent = None,
\* self._child = None, then the setter with child
OwnSingle_init(c) ==
    /\ OwnNext <= MaxNodes
    /\ c \in OwnNodes \cup {0}
    /\ ow_kind' = [ow_kind EXCEPT ![OwnNext] = "single"]
    /\ ow_held' = [ow_held EXCEPT ![OwnNext] = << c >>]
    /\ ow_parent' = Own_set_parents(ow_parent, << c >>, OwnNext)
    /\ UnchangedExcept("own")

\* the child setter: p.child = c
OwnSingle_set_child(p, c) ==
    /\ ow_kind[p] = "single"
    /\ c \in OwnNodes \cup {0}
    /\ c # p
    /\ ow_held' = [ow_held EXCEPT ![p] = << c >>]
    /\ ow_parent' = Own_set_parents(ow_parent, << c >>, p)
    /\ UNCHANGED ow_kind
    /\ UnchangedExcept("own")

\* MultiChildLayouterClip.__init__(children)
OwnMulti_init(children) ==
    /\ OwnNext <= MaxNodes
    /\ \A k \in 1 .. Len(children) : children[k] \in OwnNodes
    /\ ow_kind' = [ow_kind EXCEPT ![OwnNext] = "multi"]
    /\ ow_held' = [ow_held EXCEPT ![OwnNext] = children]
    /\ ow_parent' = Own_set_parents(ow_parent, children, OwnNext)
    /\ UnchangedExcept("own")

\* Grid.__init__(grid_children) with one row; a cell may be None
OwnGrid_init(row) ==
    /\ OwnNext <= MaxNodes
    /\ \A k \in 1 .. Len(row) : row[k] \in OwnNodes \cup {0}
    /\ ow_kind' = [ow_kind EXCEPT ![OwnNext] = "grid"]
    /\ ow_held' = [ow_held EXCEPT ![OwnNext] = row]
    /\ ow_parent' = Own_set_parents(ow_parent, row, OwnNext)
    /\ UnchangedExcept("own")

NextOwn ==
    \/ \E c \in 0 .. MaxNodes : OwnSingle_init(c)
    \/ \E p \in 1 .. MaxNodes, c \in 0 .. MaxNodes : OwnSingle_set_child(p, c)
    \/ \E children \in OwnLists(1 .. MaxNodes) : OwnMulti_init(children)
    \/ \E row \in OwnLists(0 .. MaxNodes) : OwnGrid_init(row)

\* ---------------------------------------------------------- specifications
\* the variables of every other part are at their idle values
IdleExcept(part) ==
    /\ IF part = "memo" THEN TRUE ELSE MemoIdle
    /\ IF part = "merge" THEN TRUE ELSE MergeIdle
    /\ IF part = "listview" THEN TRUE ELSE LVIdle
    /\ IF part = "grid" THEN TRUE ELSE GridIdle
    /\ IF part = "stack" THEN TRUE ELSE StackIdle
    /\ IF part = "seq" THEN TRUE ELSE SeqIdle
    /\ IF part = "off" THEN TRUE ELSE OffIdle
    /\ IF part = "paste" THEN TRUE ELSE PasteIdle
    /\ IF part = "curve" THEN TRUE ELSE CurveIdle
    /\ IF part = "inf" THEN TRUE ELSE InfIdle
    /\ IF part = "tree" THEN TRUE ELSE TreeIdle
    /\ IF part = "gridframe" THEN TRUE ELSE GridFrameIdle
    /\ IF part = "stackframe" THEN TRUE ELSE StackFrameIdle
    /\ IF part = "seqnew" THEN TRUE ELSE SeqNewIdle
    /\ IF part = "interval" THEN TRUE ELSE IntervalIdle
    /\ IF part = "anim" THEN TRUE ELSE AnimIdle
    /\ IF part = "padding" THEN TRUE ELSE PaddingIdle
    /\ IF part = "own" THEN TRUE ELSE OwnIdle

InitMemo  == MemoInit /\ IdleExcept("memo")
SpecMemo  == InitMemo /\ [][NextMemo]_vars

InitMerge == MergeInit /\ IdleExcept("merge")
SpecMerge == InitMerge /\ [][NextMerge]_vars

InitListView == LVInit /\ IdleExcept("listview")
SpecListView == InitListView /\ [][NextListView]_vars

InitGrid == GridInit /\ IdleExcept("grid")
SpecGrid == InitGrid /\ [][NextGrid]_vars

InitStack == StackInit /\ IdleExcept("stack")
SpecStack == InitStack /\ [][NextStack]_vars

InitSequential == SeqInit /\ IdleExcept("seq")
SpecSequential == InitSequential /\ [][NextSequential]_vars

InitOffseted == OffInit /\ IdleExcept("off")
SpecOffseted == InitOffseted /\ [][NextOffseted]_vars

InitPaste == PasteInit /\ IdleExcept("paste")
SpecPaste == InitPaste /\ [][NextPaste]_vars

InitCurve == CurveInit /\ IdleExcept("curve")
SpecCurve == InitCurve /\ [][NextCurve]_vars

InitInf == InfInit /\ IdleExcept("inf")
SpecInf == InitInf /\ [][NextInf]_vars

InitTree == TreeInit /\ IdleExcept("tree")
SpecTree == InitTree /\ [][NextTree]_vars

InitGridFrame == GridFrameInit /\ IdleExcept("gridframe")
SpecGridFrame == InitGridFrame /\ [][NextGridFrame]_vars

InitStackFrame == StackFrameInit /\ IdleExcept("stackframe")
SpecStackFrame == InitStackFrame /\ [][NextStackFrame]_vars

InitSeqNew == SeqNewInit /\ IdleExcept("seqnew")
SpecSeqNew == InitSeqNew /\ [][NextSeqNew]_vars

InitInterval == IntervalInit /\ IdleExcept("interval")
SpecInterval == InitInterval /\ [][NextInterval]_vars

InitAnim == AnimInit /\ IdleExcept("anim")
SpecAnim == InitAnim /\ [][NextAnim]_vars

InitPadding == PaddingInit /\ IdleExcept("padding")
SpecPadding == InitPadding /\ [][NextPadding]_vars

InitOwn == OwnInit /\ IdleExcept("own")
SpecOwn == InitOwn /\ [][NextOwn]_vars

\* ------------------------------------------------------------------ claims
\* The claims' reading of "t is out of range": negative, or beyond a duration
\* the node has.
TimeOutOfRange(d, t) == t < 0 \/ (d # <<>> /\ t > d[1])

\* C1: every get_frame call whose t is negative or greater than the node's
\* duration returns the fully transparent empty frame of the node's size,
\* whatever calls came before it.
C1_OutOfRangeReturnsEmpty ==
    (gf_call # <<>> /\ TimeOutOfRange(duration, gf_call[1].t))
        => gf_call[1].ret = LayouterClip_frame_function(size)

\* C2: for in-range t, a get_frame(t) whose t equals the t of the call just
\* before it returns the cached raster and does not invoke frame_function;
\* with any other t it invokes frame_function exactly once and leaves the
\* memo slot holding (t, frame_function(t)).
C2_MemoOnRepeatedTime ==
    [][ LET call == gf_call'[1] IN
        ~ TimeOutOfRange(duration, call.t) =>
            IF gf_call # <<>> /\ gf_call[1].t = call.t
            THEN /\ call.computed = 0
                 /\ call.ret = gf_call[1].ret
            ELSE /\ call.computed = 1
                 /\ call.ret = frame_function(size, call.t)
                 /\ memoized_t' = << call.t >>
                 /\ memoized_frame' = << frame_function(size, call.t) >>
      ]_vars

\* C2's case: an in-range call was answered from the memo, after an
\* out-of-range call had been made on the same node earlier
C2_Witness ==
    /\ gf_call # <<>>
    /\ ~ TimeOutOfRange(duration, gf_call[1].t)
    /\ gf_call[1].computed = 0
    /\ gf_call[1].ret = frame_function(size, gf_call[1].t)
    /\ duration # <<>>

\* C3: merge_constraints(a, b) = merge_constraints(b, a); each merged minimum
\* is at least the corresponding minimum of a and of b, each merged maximum at
\* most the corresponding maximum of a and of b (INF being the top).
C3_MergeCommutesAndNarrows ==
    merged # <<>> =>
        LET m == merged[1] IN
        /\ m = merge_constraints(two, one)
        /\ one.min_width <= m.min_width /\ two.min_width <= m.min_width
        /\ one.min_height <= m.min_height /\ two.min_height <= m.min_height
        /\ Leq(m.max_width, one.max_width) /\ Leq(m.max_width, two.max_width)
        /\ Leq(m.max_height, one.max_height) /\ Leq(m.max_height, two.max_height)

\* C3's case: a merge of an unbounded maximum with a finite one, either way round
C3_Witness ==
    /\ merged # <<>>
    /\ is_inf(one.max_width) /\ is_finite(two.max_width)
    /\ is_finite(one.max_height) /\ is_inf(two.max_height)
    /\ merged[1].max_width = two.max_width
    /\ merged[1].max_height = one.max_height

\* C4: for a and b that each have min <= max on both axes, the result of
\* merge_constraints(a, b) has min_width <= max_width and
\* min_height <= max_height.
C4_MergedMinBelowMax ==
    (merged # <<>> /\ WellFormed(one) /\ WellFormed(two)) => WellFormed(merged[1])

\* ---- ListView: what the claims speak of
RECURSIVE SumSeq(_)
SumSeq(q) == IF q = <<>> THEN 0 ELSE Head(q) + SumSeq(Tail(q))
MaxOf(S) == CHOOSE m \in S : \A x \in S : x <= m
\* v clamped into [lo, hi], hi finite or INF
Clamp(v, lo, hi) == LET u == IF v < lo THEN lo ELSE v IN IF Leq(u, hi) THEN u ELSE hi

MainOf(axis, c)  == IF axis = Vertical THEN c.max_height ELSE c.max_width
\* the main-axis extent each Flex child is pinned to (its min = its max)
FlexExtents(call) ==
    [k \in 1 .. Len(call.flex_constraints) |->
        IF lv_axis = Vertical THEN call.flex_constraints[k].min_height
                              ELSE call.flex_constraints[k].min_width]
FlexCross(call) ==
    [k \in 1 .. Len(call.flex_constraints) |->
        IF lv_axis = Vertical THEN call.flex_constraints[k].min_width
                              ELSE call.flex_constraints[k].min_height]
\* the resolved main-axis and cross-axis extents of the fixed children
FixedMain(call)  == [k \in 1 .. Len(call.measured) |-> call.measured[k].size[lv_axis + 1]]
FixedCross(call) ==
    [k \in 1 .. Len(call.measured) |-> call.measured[k].size[((lv_axis + 1) % 2) + 1]]
Range(q) == { q[k] : k \in 1 .. Len(q) }
HasFlex == \E i \in 1 .. Len(lv_children) : lv_children[i].flex

\* C5: with a finite main-axis extent E, fixed children consuming C in total
\* and n >= 1 Flex children, the main-axis extents given to the Flex children
\* sum to exactly E - C.
C5_FlexSumIsRemaining ==
    (lv_call # <<>> /\ ~ lv_call[1].raised /\ HasFlex) =>
        SumSeq(FlexExtents(lv_call[1]))
            = MainOf(lv_axis, lv_call[1].constraints) - SumSeq(FixedMain(lv_call[1]))

\* C6: every Flex child's main-axis extent is non-negative and differs from
\* every other Flex child's extent by at most 1 pixel.
C6_FlexExtentsEven ==
    (lv_call # <<>> /\ ~ lv_call[1].raised) =>
        \A j, k \in 1 .. Len(lv_call[1].flex_constraints) :
            /\ FlexExtents(lv_call[1])[k] >= 0
            /\ Abs(FlexExtents(lv_call[1])[j] - FlexExtents(lv_call[1])[k]) <= 1

\* C7: calculate_size raises, having sized no Flex child and producing no size
\* (self.size stays what it was), exactly when the list has a Flex child and
\* the incoming maximum on the main axis is INF.
C7_RaisesOnUnboundedFlexAxis ==
    [][ LET call == lv_call'[1] IN
        /\ call.raised <=> (HasFlex /\ is_inf(MainOf(lv_axis, call.constraints)))
        /\ call.raised => /\ call.flex_constraints = <<>>
                          /\ call.ret = <<>>
                          /\ lv_size' = lv_size
        /\ ~ call.raised => /\ lv_size' = call.ret
                            /\ Len(call.flex_constraints) = Len(call.flex_children)
      ]_vars

\* C7's case: a list with fixed and Flex children, sized once, then asked
\* again with an unbounded main axis: the call raised after measuring the
\* fixed children
C7_Witness ==
    /\ lv_call # <<>>
    /\ lv_call[1].raised
    /\ lv_call[1].measured # <<>>
    /\ lv_size # <<>>

\* C8: after calculate_size the list's main-axis size is the sum of all its
\* children's main-axis extents, and its cross-axis size is the largest
\* cross-axis extent among its children clamped into the incoming cross-axis
\* [min, max].  (A list without children has no largest extent: the claim
\* speaks of lists with at least one child.)
C8_SizeIsSumAndClampedMax ==
    (lv_call # <<>> /\ ~ lv_call[1].raised /\ lv_children # <<>>) =>
        LET call  == lv_call[1]
            c     == call.constraints
            cross == Range(FixedCross(call)) \cup Range(FlexCross(call))
        IN  /\ lv_size[lv_axis + 1]
                 = SumSeq(FixedMain(call)) + SumSeq(FlexExtents(call))
            /\ lv_size[((lv_axis + 1) % 2) + 1]
                 = IF lv_axis = Vertical
                   THEN Clamp(MaxOf(cross), c.min_width, c.max_width)
                   ELSE Clamp(MaxOf(cross), c.min_height, c.max_height)

\* ---- Grid
Rectangular(children) ==
    \A r \in 1 .. Len(children) : Len(children[r]) = Len(children[1])
NumCols(children) == IF children = <<>> THEN 0 ELSE Len(children[1])

\* C9: constructing a Grid succeeds if and only if the child matrix is
\* rectangular, the number of row_heights equals the number of rows and the
\* number of column_widths equals the number of columns; everything else (an
\* empty matrix given a non-empty spec list included) raises.
C9_GridBuiltIffShapesMatch ==
    grid_status # "none" =>
        (grid_status = "ok" <=>
            /\ Rectangular(grid_children)
            /\ Len(grid_size.row_heights) = Len(grid_children)
            /\ Len(grid_size.column_widths) = NumCols(grid_children))

C11_SequentialSelectsWindow ==
    seq_call # <<>> =>
        LET call  == seq_call[1]
            n     == Len(seq_children)
            InWin == { i \in 1 .. n : /\ SeqSum(seq_children, i - 1) <= call.t
                                      /\ call.t < SeqSum(seq_children, i) }
        IN  IF call.t >= SeqSum(seq_children, n)
            THEN /\ call.active = 0
                 /\ call.ret = EmptyFrame(seq_size)
            ELSE /\ InWin = {call.active}
                 /\ call.t_prime = call.t - SeqSum(seq_children, call.active - 1)
                 /\ 0 <= call.t_prime
                 /\ call.t_prime < seq_children[call.active].duration
                 /\ call.ret.rows = seq_size[2] /\ call.ret.cols = seq_size[1]
                 /\ call.ret.content[1].frame =
                        frame_function(seq_children[call.active].size, call.t_prime)

\* C11 happens: the second of three children was rendered at a relative time
\* past its start
C11_Witness ==
    /\ seq_call # <<>>
    /\ Len(seq_children) = 3
    /\ seq_call[1].active = 2
    /\ seq_call[1].t_prime = 1
    /\ seq_children[2].memoized_t = <<1>>

AllTransparent(f) == \A r \in 1 .. Rows(f) : \A c \in 1 .. Cols(f) : f[r][c] = 0

\* C12: Offseted.frame_function returns a fully transparent frame whenever
\* |dx| >= 1 or |dy| >= 1, and the child's frame unchanged when dx = 0 and
\* dy = 0.
C12_OffsetedOutOrUnmoved ==
    off_call # <<>> =>
        /\ (Abs(off_offset[1]) >= OffsetDen \/ Abs(off_offset[2]) >= OffsetDen)
               => AllTransparent(off_call[1].ret)
        /\ off_offset = <<0, 0>>
               => off_call[1].ret = Off_child_frame(off_size, off_call[1].t)

\* C12 happens: a node moved out of frame downwards only has been rendered
C12_Witness ==
    /\ off_call # <<>>
    /\ off_offset[1] = 0
    /\ off_offset[2] = -(OffsetDen + 1)
    /\ off_size[2] > 1

\* C13: for |dx| < 1 and |dy| < 1 and the pixel shifts (px, py), every output
\* pixel at (col, row) is the child's pixel at (col - px, row - py) when that
\* position is inside the frame and fully transparent otherwise, for positive
\* and negative shifts on either axis.
C13_OffsetedShiftsWithoutWrap ==
    (off_call # <<>> /\ Abs(off_offset[1]) < OffsetDen /\ Abs(off_offset[2]) < OffsetDen) =>
        LET call  == off_call[1]
            child == Off_child_frame(off_size, call.t)
            W     == off_size[1]
            H     == off_size[2]
        IN  /\ Rows(call.ret) = H /\ Cols(call.ret) = W
            /\ \A row \in 1 .. H : \A col \in 1 .. W :
                  call.ret[row][col] =
                      IF /\ col - call.px \in 1 .. W
                         /\ row - call.py \in 1 .. H
                      THEN child[row - call.py][col - call.px]
                      ELSE 0

\* C13 happens: a frame shifted left and down by part of its size, some of
\* the child still visible
C13_Witness ==
    /\ off_call # <<>>
    /\ off_call[1].px < 0 /\ off_call[1].py > 0
    /\ off_call[1].px > - off_size[1] /\ off_call[1].py < off_size[2]
    /\ ~ AllTransparent(off_call[1].ret)

\* the canvas pixels (row r, column c, from 1) under the source rectangle
Covered(call, r, c) ==
    /\ r - 1 - call.pos[2] \in 0 .. Rows(call.frame) - 1
    /\ c - 1 - call.pos[1] \in 0 .. Cols(call.frame) - 1

C16_CurveStaysInUnitRange ==
    cv_call # <<>> =>
        LET call == cv_call[1] IN
        /\ call.ret # <<>>
        /\ 0 <= call.ret[1] /\ call.ret[1] <= FixedPoint
        /\ (cv_curve = Linear /\ 0 <= call.t /\ call.t <= FixedPoint)
               => call.ret[1] = call.t

\* C16 happens: a cubic whose y component overshoots was called inside the
\* range and came back as exactly 1
C16_Witness ==
    /\ cv_call # <<>>
    /\ cv_curve[1] = "Cubic"
    /\ cv_curve[5] > FixedPoint
    /\ cv_call[1].t > 0 /\ cv_call[1].t < FixedPoint
    /\ cv_call[1].ret = << FixedPoint >>

\* C17: INF is the top of a consistent total order with the finite integers,
\* whichever operand is on the left: x < INF, INF > x, INF >= x hold and
\* INF < x, INF <= x, INF == x do not; INF == INF, INF <= INF, INF >= INF
\* hold, INF < INF and INF > INF do not; min(INF, x) = min(x, INF) = x and
\* max(INF, x) = max(x, INF) = INF.
C17_InfIsTop ==
    inf_call # <<>> =>
        LET call == inf_call[1]
            a    == call.a
            b    == call.b
        IN  CASE call.op = "lt"  -> call.ret = (Leq(a, b) /\ a # b)
              [] call.op = "le"  -> call.ret = Leq(a, b)
              [] call.op = "eq"  -> call.ret = (a = b)
              [] call.op = "gt"  -> call.ret = (Leq(b, a) /\ a # b)
              [] call.op = "ge"  -> call.ret = Leq(b, a)
              [] call.op = "min" -> call.ret = (IF Leq(a, b) THEN a ELSE b)
              [] call.op = "max" -> call.ret = (IF Leq(a, b) THEN b ELSE a)

\* C17 happens: INF <= x was evaluated for a finite x, and is false
C17_Witness ==
    /\ inf_call # <<>>
    /\ inf_call[1].op = "le"
    /\ is_inf(inf_call[1].a) /\ is_finite(inf_call[1].b)
    /\ inf_call[1].ret = FALSE


\* C19: in ListView.calculate_size every fixed child is measured against a
\* constraint with minimum width 0, minimum height 0 and the parent's
\* maximums, however many fixed children precede it and whatever their
\* sizes: measuring one child does not change what the next is handed.
C19_FixedChildrenMeasuredFromZero ==
    lv_call # <<>> =>
        LET call == lv_call[1] IN
        \A k \in 1 .. Len(call.measured) :
            call.measured[k].con =
                Constraints(0, 0, call.constraints.max_width,
                            call.constraints.max_height)

\* C20: in Grid.calculate_size each child is resolved against a constraint
\* whose minimum equals its maximum on both axes, equal to the pixel
\* dimensions of its cell that rendering uses (final_col_widths[c] and
\* final_row_heights[r]), for fixed and percentage cells and any gap; no
\* component of the constraint is negative.
C20_GridChildPinnedToCell ==
    grid_call # <<>> =>
        LET call == grid_call[1] IN
        \A r \in 1 .. Len(call.child_constraints) :
            \A c \in 1 .. Len(call.child_constraints[r]) :
                LET cc == call.child_constraints[r][c] IN
                /\ cc.min_width = grid_final[1].col_widths[c]
                /\ cc.max_width = grid_final[1].col_widths[c]
                /\ cc.min_height = grid_final[1].row_heights[r]
                /\ cc.max_height = grid_final[1].row_heights[r]
                /\ cc.min_width >= 0 /\ cc.min_height >= 0

RECURSIVE OneOffsetPerChild(_)
\* every Stack of the tree that was sized has one offset per child
OneOffsetPerChild(node) ==
    /\ (node.kind = "Stack" /\ node.size # <<>>) => Len(node.cache) = Len(node.children)
    /\ \A k \in 1 .. Len(node.children) : OneOffsetPerChild(node.children[k])

\* C18: size resolution is idempotent.  For every node kind, a second
\* calculate_size in a row with the same constraints leaves the size of the
\* node and of every descendant and the derived layout (Stack child offsets,
\* one per child; Grid cell widths and heights) as the first left them, and
\* raises exactly if the first did; a second setup_layout in a row leaves
\* every size_constraints unchanged.
C18_ResolutionIdempotent ==
    [][ (/\ rt_call # <<>>
         /\ rt_call'[1].op = rt_call[1].op
         /\ rt_call'[1].constraints = rt_call[1].constraints)
            => (/\ rt_call'[1].raised = rt_call[1].raised
                /\ rt_tree' = rt_tree
                /\ OneOffsetPerChild(rt_tree')) ]_vars

\* C18 witness: a Stack of two children under another node was sized twice
\* in a row against the same constraints and holds two offsets.
C18_Witness ==
    /\ rt_runs = 2
    /\ rt_call[1].op = "calculate_size"
    /\ rt_tree.kind = "Padding"
    /\ rt_tree.children[1].kind = "Stack"
    /\ Len(rt_tree.children[1].children) = 2
    /\ Len(rt_tree.children[1].cache) = 2

\* C21: Grid.frame_function completes without error for every child, also
\* one whose size exceeds its cell and a cell that reaches past the grid's
\* width or height: the rectangle left by the clamps always has the height
\* and width of the child frame written into it.
C21_GridPaintFitsCanvas ==
    gfr_call # <<>> =>
        /\ ~ gfr_call[1].raised
        /\ \A k \in 1 .. Len(gfr_call[1].cells) :
              LET cell == gfr_call[1].cells[k] IN
              /\ Cardinality(cell.rows) = cell.child_h
              /\ Cardinality(cell.cols) = cell.child_w

\* child k of the rendered stack covers the pixel of row r, column c (from 1)
PaintCovers(k, r, c) ==
    /\ r - 1 - sf_child_offsets[k][2] \in 0 .. sf_child_sizes[k][2] - 1
    /\ c - 1 - sf_child_offsets[k][1] \in 0 .. sf_child_sizes[k][1] - 1
\* the opaque children over the pixel
PaintOpaque(r, c) ==
    { k \in 1 .. Len(sf_children) : sf_children[k].alpha = 255 /\ PaintCovers(k, r, c) }

\* C22: Stack.frame_function starts from a fully transparent canvas of the
\* stack's size and blends the children in list order: every pixel shows
\* the last fully opaque child over it, whatever was painted before; fully
\* transparent children change nothing; a pixel under no opaque child stays
\* transparent.
C22_StackPaintsInOrder ==
    sf_call # <<>> =>
        /\ ~ sf_call[1].raised
        /\ Rows(sf_call[1].canvas) = sf_size[2]
        /\ \A r \in 1 .. Rows(sf_call[1].canvas) : \A c \in 1 .. Cols(sf_call[1].canvas) :
              sf_call[1].canvas[r][c] =
                  IF PaintOpaque(r, c) = {} THEN <<0, 0>>
                  ELSE LET k == CHOOSE i \in PaintOpaque(r, c) :
                                    \A j \in PaintOpaque(r, c) : j <= i
                       IN  << sf_children[k].rgb, 255 >>

\* the offset of an extent child inside an extent parent under anchor 0
\* (start), 1 (centre) or 2 (end)
AnchorOffset(anchor, parent, child) ==
    IF anchor = 0 THEN 0
    ELSE IF anchor = 1 THEN (parent - child) \div 2
    ELSE parent - child

\* C23: after Stack.calculate_size every stored offset is the one of the
\* alignment's anchors, x by its column (value mod 3) and y by its row
\* (value div 3) of the 3 x 3 alignments, relative to the stack's size; a
\* child whose size respects the constraint it was measured against lies
\* inside the stack: 0 <= x, x + w <= W, 0 <= y, y + h <= H.
C23_StackOffsetsFollowAlignment ==
    st_call # <<>> =>
        /\ Len(st_child_offsets) = Len(st_children)
        /\ \A k \in 1 .. Len(st_child_offsets) :
              LET w == st_call[1].child_sizes[k][1]
                  h == st_call[1].child_sizes[k][2]
                  x == st_child_offsets[k][1]
                  y == st_child_offsets[k][2]
                  con == st_call[1].handed[k]
              IN  /\ x = AnchorOffset(st_alignment % 3, st_size[1], w)
                  /\ y = AnchorOffset(st_alignment \div 3, st_size[2], h)
                  /\ (/\ Leq(con.min_width, w) /\ Leq(w, con.max_width)
                      /\ Leq(con.min_height, h) /\ Leq(h, con.max_height))
                        => (/\ 0 <= x /\ x + w <= st_size[1]
                            /\ 0 <= y /\ y + h <= st_size[2])

\* C23 witness: a bottom-right stack holds children that respect their
\* constraint, one narrower than the stack and pushed right, one lower than
\* the stack and pushed down.
C23_Witness ==
    /\ st_call # <<>>
    /\ st_alignment = 8
    /\ \A k \in 1 .. Len(st_child_offsets) :
          /\ Leq(st_call[1].child_sizes[k][1], st_call[1].handed[k].max_width)
          /\ Leq(st_call[1].child_sizes[k][2], st_call[1].handed[k].max_height)
    /\ \E k \in 1 .. Len(st_child_offsets) : st_child_offsets[k][1] > 0
    /\ \E k \in 1 .. Len(st_child_offsets) : st_child_offsets[k][2] > 0

\* the sum of the durations of the children a Sequential was built from
SeqNewTotal == SeqSum(sn_children, Len(sn_children))

\* the construction half of C24: it fails exactly when a child has no
\* duration; the duration is the sum of the children's when none is passed
\* and the passed one otherwise
SeqNewDurationKept ==
    sn_status # "none" =>
        /\ (sn_status = "error") <=>
              (\E k \in 1 .. Len(sn_args[1].children) :
                  sn_args[1].children[k].duration = <<>>)
        /\ (sn_status = "ok") =>
              sn_duration = IF sn_args[1].duration = <<>> THEN << SeqNewTotal >>
                            ELSE sn_args[1].duration

\* C24: constructing a Sequential fails when a child has no duration; with
\* no duration passed its duration is the sum of the children's, a passed
\* one is kept; get_frame returns a transparent frame for every t after the
\* last child (a longer duration) and for every t beyond the duration (a
\* shorter one).
C24_SequentialDuration ==
    /\ SeqNewDurationKept
    /\ (/\ sn_call # <<>>
        /\ (sn_call[1].t >= SeqNewTotal \/ sn_call[1].t > sn_duration[1]))
          => sn_call[1].ret.content = <<>>

\* C25: evaluating an Interval with end = begin raises, for every t and
\* every inner curve, and returns nothing; with begin < end it returns the
\* inner curve's value at 0 for t <= begin, at 1 for t >= end, and at
\* (t - begin) / (end - begin) in between.
C25_IntervalEvaluation ==
    iv_call # <<>> =>
        LET begin == iv_curve[2]
            end   == iv_curve[3]
            inner == iv_curve[4]
            t     == iv_call[1].t
        IN  /\ end = begin => (iv_call[1].raised /\ iv_call[1].ret = <<>>)
            /\ begin < end =>
                  /\ ~ iv_call[1].raised
                  /\ iv_call[1].ret =
                        IF t <= begin THEN Curve_transform(inner, 0)
                        ELSE IF t >= end THEN Curve_transform(inner, FixedPoint)
                        ELSE Curve_transform(inner, FxDiv(t - begin, end - begin))
\* an Interval with end = begin over a cubic was evaluated strictly inside
\* [0,1] and raised
C25_Witness ==
    /\ iv_call # <<>>
    /\ iv_curve[3] = iv_curve[2]
    /\ iv_curve[4][1] = "Cubic"
    /\ iv_call[1].t > 0 /\ iv_call[1].t < FixedPoint
    /\ iv_call[1].raised
\* an Interval with begin < end was evaluated strictly between them
C25_WitnessBetween ==
    /\ iv_call # <<>>
    /\ iv_curve[2] < iv_call[1].t /\ iv_call[1].t < iv_curve[3]
    /\ iv_call[1].ret # <<>>
    /\ iv_call[1].ret # << iv_call[1].t >>

\* the progress handed to frame_anim_function is within [0,1]
AnimProgressInUnitRange ==
    (an_call # <<>> /\ an_call[1].at # <<>>) =>
        (0 <= an_call[1].at[1] /\ an_call[1].at[1] <= FixedPoint)

\* C26: an AnimatedSlide exists once constructed, and at progress p its
\* offset node has (dx,dy) = start + (end - start) * p for 0 <= p < 1 and
\* the end offset for p = 1; the progress is always within [0,1].
C26_SlideInterpolates ==
    /\ AnimProgressInUnitRange
    /\ (an_args # <<>> /\ an_args[1].kind = "AnimatedSlide") =>
          /\ an_status = "ok"
          /\ (an_call # <<>> /\ an_call[1].at # <<>>) =>
                LET p == an_call[1].at[1]
                    a == an_args[1]
                IN  an_offset = << IF p = FixedPoint THEN a.end
                                   ELSE [dx |-> a.start.dx + FxMul(a.end.dx - a.start.dx, p),
                                         dy |-> a.start.dy + FxMul(a.end.dy - a.start.dy, p)] >>

\* a size lies within the constraints on both axes
SizeWithin(sz, c) ==
    /\ c.min_width <= sz[1] /\ Leq(sz[1], c.max_width)
    /\ c.min_height <= sz[2] /\ Leq(sz[2], c.max_height)

\* C27: after Padding.calculate_size(constraints), min <= max, whenever the
\* child's size satisfies the constraints the child was given, the
\* Padding's size (the child's plus the insets) lies within the incoming
\* constraints on both axes, also when the insets exceed the maximum.
C27_PaddingSizeWithinConstraints ==
    (pd_call # <<>> /\ SizeWithin(pd_call[1].child_size, pd_call[1].child_constraints))
        => SizeWithin(pd_call[1].size, pd_call[1].constraints)

\* the same for the calls whose insets fit under the maximum on both axes
PaddingWithinWhenInsetsFit ==
    (/\ pd_call # <<>>
     /\ SizeWithin(pd_call[1].child_size, pd_call[1].child_constraints)
     /\ Leq(pd_padding[2] + pd_padding[4], pd_call[1].constraints.max_width)
     /\ Leq(pd_padding[1] + pd_padding[3], pd_call[1].constraints.max_height))
        => SizeWithin(pd_call[1].size, pd_call[1].constraints)

\* C28: at every point of any sequence of get_frame calls, in-range and
\* out-of-range times mixed, a frame held in the memo slot is the frame
\* frame_function produces for the memoized time.
C28_MemoFrameMatchesMemoTime ==
    memoized_frame # <<>> =>
        /\ memoized_t # <<>>
        /\ memoized_frame[1] = frame_function(size, memoized_t[1])

\* C30: every frame get_frame returns for a node of size (W, H) has H rows
\* and W columns, the empty frame of an out-of-range time included, also
\* when W # H.
C30_FramesAreHeightByWidth ==
    gf_call # <<>> =>
        /\ gf_call[1].ret.rows = size[2]
        /\ gf_call[1].ret.cols = size[1]

\* the same for the nodes whose width equals their height
FramesAreHeightByWidthWhenSquare ==
    (gf_call # <<>> /\ size[1] = size[2]) =>
        /\ gf_call[1].ret.rows = size[2]
        /\ gf_call[1].ret.cols = size[1]

\* node p currently holds node c
Holds(p, c) == \E k \in 1 .. Len(ow_held[p]) : ow_held[p][k] = c

\* C29: after any sequence of constructions and child assignments, every
\* node is held by at most one node, and every child a node holds has that
\* node as its parent.
C29_ParentsAgreeWithOwnership ==
    \A c \in 1 .. MaxNodes :
        /\ Cardinality({ p \in 1 .. MaxNodes : Holds(p, c) }) <= 1
        /\ \A p \in 1 .. MaxNodes : Holds(p, c) => ow_parent[c] = p

\* what the code keeps: a node that is held has a parent
HeldNodeHasParent ==
    \A c \in 1 .. MaxNodes :
        (\E p \in 1 .. MaxNodes : Holds(p, c)) => ow_parent[c] # 0

====
